---- MODULE Spec2Model ----
(***************************************************************************)
(* Personalized feed backend: the ranking service (services/ranking.py),   *)
(* the feedback and profile endpoints (routes/feedback.py) and the rows    *)
(* they persist (storage/models.py).                                       *)
(*                                                                         *)
(* Numbers: scores are floats in the source.  Factor scores are carried in *)
(* thousandths (0.5 is 500), ranking weights in hundredths (0.25 is 25),   *)
(* final scores in hundred-thousandths (0.5 is 50000) and feedback values  *)
(* in tenths (0.5 is 5).  Text is a sequence of one-character strings.     *)
(***************************************************************************)
EXTENDS Integers, Sequences, FiniteSets, TLC

VARIABLES
    profiles,      \* table user_profiles: sequence of rows, in rowid order
    feedbacks,     \* table feedback: sequence of Feedback rows
    req,           \* per request process: position and session-local state
    clock,         \* requests started so far; also the timestamp source
    resp,          \* the response (or return value) most recently handed to a caller
    appliedSeq,    \* history records whose profile commit succeeded since the last reset
    interleaved,   \* a commit happened while another request held a loaded profile
    racedPairs,    \* <<a, b>>: feedback application a committed while b held the same loaded row
    rankOut,       \* what the last rank_feed_items call returned
    feedItems,     \* table feed_items as the ingestion paths fill it: sequence of rows
    index,         \* VectorStore.index: the stored vectors in FAISS order (position p is FAISS id p-1)
    idMapping,     \* VectorStore.id_mapping: entry p is the value stored under FAISS id p-1
    loop,          \* the handler that holds the event loop, and how far it got
    searchOut,     \* what the last search_by_embedding call returned
    jobs,          \* JobQueue._jobs: the jobs in insertion order
    made,          \* how many jobs create_job has made
    worker,        \* BackgroundWorker: where its loop stands and the job it holds
    savers,        \* per process: the save of one feed item, between its query and its insert
    vstore,        \* VectorStore._initialized and the index file found on disk
    pipeline,      \* EmbeddingsPipeline: the model, the fallback flag, the load attempts
    urgOut         \* what the last call of _calculate_urgency was given and returned

vars == <<profiles, feedbacks, req, clock, resp, appliedSeq, interleaved, racedPairs, rankOut,
          feedItems, index, idMapping, loop, searchOut, jobs, made, worker,
          savers, vstore, pipeline, urgOut>>

\* the state of the feedback loop and of ranking, and the state of the rest
core == <<profiles, feedbacks, req, clock, resp, appliedSeq, interleaved, racedPairs, rankOut>>
storeVars == <<index, idMapping, loop, searchOut, vstore>>
jobVars == <<jobs, made, worker>>
pureVars == <<pipeline, urgOut>>
others == <<feedItems, savers, storeVars, jobVars, pureVars>>

-----------------------------------------------------------------------------
(* Bounds of the model *)

MaxReqs == 2          \* requests started in one behaviour

Procs == {1, 2}       \* request processes (server workers) that may overlap

-----------------------------------------------------------------------------
(* Text: str.lower, str.isalpha, str.split *)

Lowercase == <<"a","b","c","d","e","f","g","h","i","j","k","l","m",
               "n","o","p","q","r","s","t","u","v","w","x","y","z">>
Uppercase == <<"A","B","C","D","E","F","G","H","I","J","K","L","M",
               "N","O","P","Q","R","S","T","U","V","W","X","Y","Z">>
AlphabetIdx == 1..Len(Lowercase)

IsUpper(c) == \E i \in AlphabetIdx : c = Uppercase[i]
IsLetter(c) == \E i \in AlphabetIdx : c = Lowercase[i] \/ c = Uppercase[i]

LowerChar(c) ==
    IF IsUpper(c) THEN Lowercase[CHOOSE i \in AlphabetIdx : c = Uppercase[i]] ELSE c

\* a sequence given as a function, evaluated once
Seq1(f, n) == SubSeq(f, 1, n)

Lower(s) == Seq1([i \in 1..Len(s) |-> LowerChar(s[i])], Len(s))

IsAlpha(w) == Len(w) > 0 /\ \A i \in 1..Len(w) : IsLetter(w[i])

InSeq(x, s) == \E i \in 1..Len(s) : s[i] = x

Prefix(s, n) == IF Len(s) <= n THEN s ELSE SubSeq(s, 1, n)       \* s[:n], n >= 0
Suffix(s, n) == IF Len(s) <= n THEN s ELSE SubSeq(s, Len(s) - n + 1, Len(s))  \* s[-n:]

Truthy(l) == l # <<>>     \* a list or string is true iff it is not empty

\* the elements of s at the positions in I, in order
Pick(s, I) ==
    LET idx == SelectSeq(Seq1([i \in 1..Len(s) |-> i], Len(s)), LAMBDA i : i \in I)
    IN  Seq1([k \in 1..Len(idx) |-> s[idx[k]]], Len(idx))

\* str.split(): the maximal runs of non-blank characters, in order
WordStarts(s) == {i \in 1..Len(s) : s[i] # " " /\ (i = 1 \/ s[i - 1] = " ")}
WordEnd(s, i) ==
    CHOOSE j \in i..Len(s) :
        /\ \A k \in i..j : s[k] # " "
        /\ (j = Len(s) \/ s[j + 1] = " ")
Split(s) ==
    LET starts == WordStarts(s)
    IN  Pick([i \in 1..Len(s) |-> IF i \in starts THEN SubSeq(s, i, WordEnd(s, i)) ELSE <<>>],
             starts)

\* " ".join(ws)
RECURSIVE JoinWords(_)
JoinWords(ws) ==
    IF ws = <<>> THEN <<>>
    ELSE IF Len(ws) = 1 THEN ws[1]
    ELSE LET h == Len(ws) \div 2
         IN  JoinWords(SubSeq(ws, 1, h)) \o <<" ">> \o JoinWords(SubSeq(ws, h + 1, Len(ws)))

-----------------------------------------------------------------------------
(* Feed items.  metadata is what item.metadata evaluates to: FeedItem maps *)
(* the column to the attribute meta_data, so on a row loaded from the      *)
(* store item.metadata is the declarative base's MetaData registry, which  *)
(* has no get(); an item built in memory with metadata={...} carries the   *)
(* dict.                                                                   *)

Absent == <<"<absent>">>            \* the key is not in the dict
MetaDataObject == [kind |-> "MetaData", sender |-> Absent, sender_email |-> Absent]
MetaDict(s, e) == [kind |-> "dict", sender |-> s, sender_email |-> e]

FillerWord(i) == <<"k", "w", Lowercase[1 + (i \div 26)], Lowercase[1 + (i % 26)]>>
LongSummary == JoinWords(Seq1([i \in 1..52 |-> FillerWord(i)], 52))

Bob == <<"B","o","b">>
BobMail == <<"b","o","b","@","x",".","i","o">>

\* a task extracted from an item: due_date is None (<<>>) or a string, kept as
\* <<days until due>> with the form of the string: "naive" when fromisoformat
\* yields a datetime without offset ("2025-01-24"), "aware" when it yields one
\* with an offset ("2025-01-24T10:00:00Z", the Z replaced by +00:00), and
\* "invalid" when fromisoformat raises ValueError ("2025-01-XX")
TaskOf(due, form) == [due_date |-> due, form |-> form]
Task(due) == TaskOf(due, "naive")

\* age: hours between the item's date and the moment it is ranked
Items ==
    [ i1 |-> [id |-> 1, title |-> <<"G","a","m","m","a"," ","n","e","w","s">>,
              summary |-> <<>>, text |-> <<>>, priority |-> "medium",
              extracted_tasks |-> <<>>, age |-> 0, metadata |-> MetaDataObject],
      i2 |-> [id |-> 2, title |-> <<"U","r","g","e","n","t",":"," "," ","D","e","l","t","a"," ","4","e","v","e","r">>,
              summary |-> <<"t","h","e"," ","g","a","m","m","a">>, text |-> <<"a","s","a","p"," ","d","u","e">>, priority |-> "medium",
              extracted_tasks |-> <<>>, age |-> 24, metadata |-> MetaDataObject],
      i3 |-> [id |-> 3, title |-> <<"D","i","g","e","s","t">>,
              summary |-> LongSummary, text |-> <<"a"," ","m","e","e","t","i","n","g">>, priority |-> "low",
              extracted_tasks |-> <<Task(<<>>), Task(<<5>>)>>, age |-> 48,
              metadata |-> MetaDataObject],
      i4 |-> [id |-> 4, title |-> <<"G","a","m","m","a"," ","m","e","m","o">>,
              summary |-> <<>>, text |-> <<>>, priority |-> "high",
              extracted_tasks |-> <<>>, age |-> 0 - 5, metadata |-> MetaDict(Bob, BobMail)],
      i5 |-> [id |-> 5, title |-> <<"O","m","e","g","a">>,
              summary |-> <<>>, text |-> <<>>, priority |-> "medium",
              extracted_tasks |-> <<Task(<<2>>)>>, age |-> 24, metadata |-> MetaDict(Bob, Absent)] ]

StoredItems == {Items.i1, Items.i2, Items.i3}      \* rows of feed_items, user 1
MemoryItems == {Items.i4, Items.i5}                \* built by the caller
AllItems == StoredItems \cup MemoryItems
ItemById(n) == CHOOSE it \in AllItems : it.id = n

-----------------------------------------------------------------------------
(* Rows *)

Factors == {"semantic_relevance", "sender_importance", "urgency", "recency", "user_feedback"}
NoWeights == [f \in {} |-> 0]           \* {} : the column default

\* UserProfile(user_id=u) once inserted: every JSON column takes its default
NewProfileRow(u) ==
    [user_id |-> u, important_keywords |-> <<>>, important_contacts |-> <<>>,
     feedback_history |-> <<>>, ranking_weights |-> NoWeights]

\* db.query(UserProfile).filter(UserProfile.user_id == u).first()
HasProfile(u) == \E i \in 1..Len(profiles) : profiles[i].user_id = u
FirstProfileId(u) ==
    CHOOSE i \in 1..Len(profiles) :
        /\ profiles[i].user_id = u
        /\ \A j \in 1..(i - 1) : profiles[j].user_id # u
ProfileOf(u) == profiles[FirstProfileId(u)]

-----------------------------------------------------------------------------
(* The unit of work.  The JSON columns are plain JSON, not mutation        *)
(* tracked: on assignment the session keeps a reference to the value the   *)
(* attribute held, and at flush a column goes into the UPDATE only if its  *)
(* current value differs from that held value.  A list the code appended   *)
(* to in place IS the held value, so it is compared against itself.        *)
(* An attribute is [held |-> value at flush of the object first loaded,    *)
(*                  cur  |-> value now assigned].                          *)

Untouched(v) == [held |-> v, cur |-> v]
Dirty(a) == a.cur # a.held

\* x = loaded or [] ; <x mutated in place into m> ; attr = assigned
\* (assigned is a new list unless it is m itself)
InPlaceThenAssign(loaded, m, assigned) ==
    [held |-> IF Truthy(loaded) THEN m ELSE loaded, cur |-> assigned]

\* attr = v, a fresh value
Assign(loaded, v) == [held |-> loaded, cur |-> v]

-----------------------------------------------------------------------------
(* services/ranking.py: the feedback learning loop *)

MaxKeywords == 50
MaxContacts == 20
MaxHistory == 100
PositiveThreshold == 5          \* feedback_value > 0.5

\* text.lower().split(), then the words longer than 3 that are alphabetic
ExtractKeywords(item) ==
    LET text == item.title \o <<" ">> \o item.summary
        words == Split(Lower(text))
    IN  SelectSeq(words, LAMBDA w : Len(w) > 3 /\ IsAlpha(w))

\* the keyword loop without its length test: every new word is appended
AddKeywordsUncapped(list, kws) ==
    LET novel == {i \in 1..Len(kws) :
                     /\ ~InSeq(kws[i], list)
                     /\ \A j \in 1..(i - 1) : kws[j] # kws[i]}
    IN  list \o Pick(kws, novel)

\* for keyword in keywords: append when new and below the cap.  The loop
\* appends, in order, the first occurrence of each word that is not in the
\* list, for as long as the list is below the cap.
AddKeywords(list, kws) ==
    LET novel == {i \in 1..Len(kws) :
                     /\ ~InSeq(kws[i], list)
                     /\ \A j \in 1..(i - 1) : kws[j] # kws[i]}
        room == IF Len(list) < MaxKeywords THEN MaxKeywords - Len(list) ELSE 0
    IN  list \o Prefix(Pick(kws, novel), room)

ItemKeywords == {<<it.id, ExtractKeywords(it)>> : it \in AllItems}
KeywordsOf(n) == (CHOOSE e \in ItemKeywords : e[1] = n)[2]

UpdateImportantKeywords(loaded, item) ==
    LET m == AddKeywords(loaded, KeywordsOf(item.id))
    IN  InPlaceThenAssign(loaded, m, m)

\* metadata.get(key): None when the key is absent
MetaGet(metadata, key) == IF metadata[key] = Absent THEN <<>> ELSE metadata[key]

AppendIfNew(list, x) == IF Truthy(x) /\ ~InSeq(x, list) THEN Append(list, x) ELSE list

UpdateImportantContacts(loaded, item) ==
    IF item.metadata.kind # "dict"
    THEN Untouched(loaded)          \* AttributeError, swallowed by the except
    ELSE LET m == AppendIfNew(AppendIfNew(loaded, MetaGet(item.metadata, "sender")),
                              MetaGet(item.metadata, "sender_email"))
         IN  InPlaceThenAssign(loaded, m, Prefix(m, MaxContacts))

HistoryRecord(item, ftype, fvalue, ts) ==
    [feed_item_id |-> item.id, feedback_type |-> ftype,
     feedback_value |-> fvalue, timestamp |-> ts]

UpdateFeedbackHistory(loaded, rec) ==
    LET m == Append(loaded, rec)
    IN  InPlaceThenAssign(loaded, m, Suffix(m, MaxHistory))

\* the positive test with >= in place of >
IsPositiveFromHalf(ftype, fvalue) == ftype \in {"like", "complete"} /\ fvalue >= PositiveThreshold

IsPositive(ftype, fvalue) == ftype \in {"like", "complete"} /\ fvalue > PositiveThreshold

\* the attribute states of the profile object when db.commit() is reached
UpdateUserProfileFromFeedback(row, item, ftype, fvalue, ts) ==
    [ feedback_history |->
          UpdateFeedbackHistory(row.feedback_history, HistoryRecord(item, ftype, fvalue, ts)),
      important_keywords |->
          IF IsPositive(ftype, fvalue)
          THEN UpdateImportantKeywords(row.important_keywords, item)
          ELSE Untouched(row.important_keywords),
      important_contacts |->
          IF IsPositive(ftype, fvalue)
          THEN UpdateImportantContacts(row.important_contacts, item)
          ELSE Untouched(row.important_contacts),
      ranking_weights |-> Untouched(row.ranking_weights) ]

Columns == {"feedback_history", "important_keywords", "important_contacts", "ranking_weights"}

\* db.commit() of a session holding the profile object: INSERT of a pending
\* object; otherwise UPDATE ... WHERE id = rowid of the dirty columns only
Flushed(rowid, u, attrs) ==
    IF rowid = 0
    THEN Append(profiles, [c \in Columns \cup {"user_id"} |->
                              IF c = "user_id" THEN u ELSE attrs[c].cur])
    ELSE [profiles EXCEPT ![rowid] =
            [c \in Columns \cup {"user_id"} |->
                IF c \in Columns /\ Dirty(attrs[c]) THEN attrs[c].cur ELSE @[c]]]

-----------------------------------------------------------------------------
(* routes/feedback.py: requests *)

UserId == 1                       \* every endpoint acts for user 1
DefaultFeedbackValue == 5         \* request.feedback_value or 0.5
ValidFeedbackTypes == {"like", "dislike", "complete", "snooze", "dismiss"}

\* an optional field is <<>> (None) or <<value>>
FeedbackRequests ==
    { [feed_item_id |-> 1, feedback_type |-> "like",    feedback_value |-> <<10>>],
      [feed_item_id |-> 2, feedback_type |-> "complete", feedback_value |-> <<>>],
      [feed_item_id |-> 3, feedback_type |-> "like",    feedback_value |-> <<10>>],
      [feed_item_id |-> 1, feedback_type |-> "share",   feedback_value |-> <<>>],
      [feed_item_id |-> 1, feedback_type |-> "like",    feedback_value |-> <<11>>],
      [feed_item_id |-> 9, feedback_type |-> "like",    feedback_value |-> <<10>>],
      [feed_item_id |-> 1, feedback_type |-> "like",    feedback_value |-> <<0>>] }

\* direct calls of update_user_profile_from_feedback, as the tests make them
DirectCalls ==
    { [item |-> 4, feedback_type |-> "like",     feedback_value |-> 10],
      [item |-> 5, feedback_type |-> "complete", feedback_value |-> 6],
      [item |-> 4, feedback_type |-> "dismiss",  feedback_value |-> 10] }

PutKeywords ==
    Seq1([i \in 1..52 |-> <<"p", Lowercase[1 + (i % 26)], Lowercase[1 + (i \div 26)]>>], 52)
PutContacts == Seq1([i \in 1..22 |-> <<"c", Lowercase[i]>>], 22)
PartialWeights == [f \in {"semantic_relevance", "sender_importance", "urgency"} |->
                      IF f = "semantic_relevance" THEN 50
                      ELSE IF f = "sender_importance" THEN 30 ELSE 20]
BogusWeights == [f \in {"urgency", "novelty"} |-> 10]

NoBody == [important_keywords |-> <<>>, important_contacts |-> <<>>, ranking_weights |-> <<>>]
UpdateProfileRequests ==
    { [important_keywords |-> <<PutKeywords>>, important_contacts |-> <<PutContacts>>,
       ranking_weights |-> <<>>],
      [important_keywords |-> <<>>, important_contacts |-> <<Prefix(PutContacts, 19)>>,
       ranking_weights |-> <<>>],
      [important_keywords |-> <<>>, important_contacts |-> <<>>,
       ranking_weights |-> <<PartialWeights>>],
      [important_keywords |-> <<Prefix(PutKeywords, 2)>>, important_contacts |-> <<>>,
       ranking_weights |-> <<BogusWeights>>] }

Idle ==
    [pc |-> "idle", op |-> "none", item |-> 0, ftype |-> "none", fvalue |-> 0, ts |-> 0,
     rowid |-> 0, row |-> NewProfileRow(UserId), body |-> NoBody]

HoldsProfile(q) == req[q].pc \in {"fb_commit", "put_commit", "reset_commit"}
OthersHold(p) == \E q \in Procs \ {p} : HoldsProfile(q)

\* user_profile = query.first(); if not user_profile: UserProfile(user_id) ; db.add
LoadProfile(r, u) ==
    IF HasProfile(u)
    THEN [r EXCEPT !.rowid = FirstProfileId(u), !.row = ProfileOf(u)]
    ELSE [r EXCEPT !.rowid = 0, !.row = NewProfileRow(u)]

\* what a caller gets back (status, success) and, for reference, whose request it
\* answers and whether that request's profile commit went through (applied)
Response(r, op, status, success, applied) ==
    [ts |-> r.ts, op |-> op, item |-> r.item, ftype |-> r.ftype, fvalue |-> r.fvalue,
     status |-> status, success |-> success, applied |-> applied]

\* rank_feed_items has not been called
NoRank == <<>>

\* search_by_embedding has not been called
NoSearch == <<>>

\* no handler is running
LoopIdle == [pc |-> "idle", todo |-> <<>>, all |-> <<>>, before |-> <<>>]

\* no save is under way in the process
SaverIdle == [pc |-> "idle", item |-> <<>>, existing |-> FALSE]

\* VectorStore.__init__: not initialized; file is what the index file holds
\* (an absent file and a file with no vector both give an empty index)
NoFile == <<<<>>, <<>>>>
NewStore == [initialized |-> FALSE, file |-> NoFile]

\* EmbeddingsPipeline.__init__: no model, HF_AVAILABLE False; log keeps, for
\* each call of embed_text, whether it tried to load the local model and the
\* tier it was left with
NewPipeline == [model |-> FALSE, hf_available |-> FALSE, log |-> <<>>]

\* _calculate_urgency has not been called
NoUrgency == <<>>

\* the worker loop is about to call get_next_job
WorkerIdle == [pc |-> "idle", job |-> 0]

\* nothing ingested, the vector index empty, no job made
ServicesIdle ==
    /\ feedItems = <<>>
    /\ index = <<>>
    /\ idMapping = <<>>
    /\ loop = LoopIdle
    /\ searchOut = NoSearch
    /\ jobs = <<>>
    /\ made = 0
    /\ worker = WorkerIdle
    /\ savers = [p \in Procs |-> SaverIdle]

\* and the process has just started
NothingElse ==
    /\ ServicesIdle
    /\ vstore = NewStore
    /\ pipeline = NewPipeline
    /\ urgOut = NoUrgency

NoResponse == Response(Idle, "none", 0, FALSE, FALSE)

\* no profile, no feedback, no request in progress
NoRequests ==
    /\ profiles = <<>>
    /\ feedbacks = <<>>
    /\ req = [p \in Procs |-> Idle]
    /\ clock = 0
    /\ resp = NoResponse
    /\ appliedSeq = <<>>
    /\ interleaved = FALSE
    /\ racedPairs = {}
    /\ rankOut = NoRank

Init ==
    /\ profiles = <<>>
    /\ feedbacks = <<>>
    /\ req = [p \in Procs |-> Idle]
    /\ clock = 0
    /\ resp = NoResponse
    /\ appliedSeq = <<>>
    /\ interleaved = FALSE
    /\ racedPairs = {}
    /\ rankOut = NoRank
    /\ NothingElse

\* a route that passes 1.0 for a missing value
PassedValueFull(v) == IF v = <<>> \/ v[1] = 0 THEN 10 ELSE v[1]

\* feedback_value=request.feedback_value or 0.5
PassedValue(v) == IF v = <<>> \/ v[1] = 0 THEN DefaultFeedbackValue ELSE v[1]

\* POST /feedback up to the first commit: validation, item lookup, Feedback row
SubmitFeedback(p, r, ok) ==
    /\ req[p].pc = "idle"
    /\ clock < MaxReqs
    /\ clock' = clock + 1
    /\ LET ts == clock + 1
           v == r.feedback_value
           bad == \/ r.feedback_type \notin ValidFeedbackTypes
                  \/ (v # <<>> /\ ~(0 <= v[1] /\ v[1] <= 10))
           found == \E it \in StoredItems : it.id = r.feed_item_id
       IN  IF bad \/ ~found \/ ~ok
           THEN /\ resp' = Response([Idle EXCEPT !.ts = ts], "submit",
                                     IF bad THEN 400 ELSE IF ~found THEN 404 ELSE 500,
                                     FALSE, FALSE)
                /\ UNCHANGED <<feedbacks, req>>
           ELSE /\ feedbacks' = Append(feedbacks,
                      [user_id |-> UserId, feed_item_id |-> r.feed_item_id,
                       feedback_type |-> r.feedback_type, feedback_value |-> v,
                       created_at |-> ts])
                /\ req' = [req EXCEPT ![p] =
                      [Idle EXCEPT !.pc = "fb_load", !.op = "submit", !.item = r.feed_item_id,
                          !.ftype = r.feedback_type, !.ts = ts,
                          !.fvalue = PassedValue(v)]]
                /\ UNCHANGED resp
    /\ UNCHANGED <<profiles, appliedSeq, interleaved, racedPairs, rankOut>>
    /\ UNCHANGED others

\* update_user_profile_from_feedback: the profile query
FbLoad(p) ==
    /\ req[p].pc = "fb_load"
    /\ req' = [req EXCEPT ![p] = [LoadProfile(@, UserId) EXCEPT !.pc = "fb_commit"]]
    /\ UNCHANGED <<profiles, feedbacks, clock, resp, appliedSeq, interleaved, racedPairs, rankOut>>
    /\ UNCHANGED others

\* update_user_profile_from_feedback called directly, up to the profile query
DirectLoad(p, c) ==
    /\ req[p].pc = "idle"
    /\ clock < MaxReqs
    /\ clock' = clock + 1
    /\ req' = [req EXCEPT ![p] =
          [LoadProfile(Idle, UserId) EXCEPT !.pc = "fb_commit", !.op = "direct",
              !.item = c.item, !.ftype = c.feedback_type, !.fvalue = c.feedback_value,
              !.ts = clock + 1]]
    /\ UNCHANGED <<profiles, feedbacks, resp, appliedSeq, interleaved, racedPairs, rankOut>>
    /\ UNCHANGED others

\* update_user_profile_from_feedback from the history append to the commit or
\* rollback, and what the caller then reports
FbCommit(p, ok) ==
    /\ req[p].pc = "fb_commit"
    /\ LET r == req[p]
           attrs == UpdateUserProfileFromFeedback(r.row, ItemById(r.item), r.ftype, r.fvalue, r.ts)
       IN  /\ profiles' = IF ok THEN Flushed(r.rowid, UserId, attrs) ELSE profiles
           /\ resp' = Response(r, r.op, 200, IF r.op = "submit" THEN TRUE ELSE ok, ok)
           /\ racedPairs' = IF ok
                            THEN racedPairs \cup
                                 {<<r.ts, req[q].ts>> :
                                     q \in {x \in Procs \ {p} : /\ req[x].pc = "fb_commit"
                                                                /\ r.rowid # 0
                                                                /\ req[x].rowid = r.rowid}}
                            ELSE racedPairs
           /\ appliedSeq' = IF ok THEN Append(appliedSeq, r.ts) ELSE appliedSeq
    /\ interleaved' = (interleaved \/ (ok /\ OthersHold(p)))
    /\ req' = [req EXCEPT ![p] = Idle]
    /\ UNCHANGED <<feedbacks, clock, rankOut>>
    /\ UNCHANGED others

\* PUT /profile: the attribute states when db.commit() is reached
UpdateUserProfile(row, b) ==
    [ important_keywords |->
          IF b.important_keywords # <<>>
          THEN Assign(row.important_keywords, Prefix(b.important_keywords[1], MaxKeywords))
          ELSE Untouched(row.important_keywords),
      important_contacts |->
          IF b.important_contacts # <<>>
          THEN Assign(row.important_contacts, Prefix(b.important_contacts[1], MaxContacts))
          ELSE Untouched(row.important_contacts),
      ranking_weights |->
          IF b.ranking_weights # <<>>
          THEN Assign(row.ranking_weights, b.ranking_weights[1])
          ELSE Untouched(row.ranking_weights),
      feedback_history |-> Untouched(row.feedback_history) ]

\* a validation loop that accepts every key
WeightsRejectedNever(b) == FALSE

\* for key in request.ranking_weights: if key not in valid_weights: raise 400
WeightsRejected(b) ==
    /\ b.ranking_weights # <<>>
    /\ \E k \in DOMAIN b.ranking_weights[1] : k \notin Factors

\* PUT /profile up to the profile query
PutLoad(p, b) ==
    /\ req[p].pc = "idle"
    /\ clock < MaxReqs
    /\ clock' = clock + 1
    /\ req' = [req EXCEPT ![p] =
          [LoadProfile(Idle, UserId) EXCEPT !.pc = "put_commit", !.op = "put", !.body = b,
              !.ts = clock + 1]]
    /\ UNCHANGED <<profiles, feedbacks, resp, appliedSeq, interleaved, racedPairs, rankOut>>
    /\ UNCHANGED others

\* PUT /profile from the field updates to the response
PutCommit(p, ok) ==
    /\ req[p].pc = "put_commit"
    /\ LET r == req[p]
           rejected == WeightsRejected(r.body)
           written == ~rejected /\ ok
       IN  /\ profiles' = IF written
                          THEN Flushed(r.rowid, UserId, UpdateUserProfile(r.row, r.body))
                          ELSE profiles
           /\ resp' = Response(r, "put", IF rejected THEN 400 ELSE IF ok THEN 200 ELSE 500,
                               written, written)
           /\ interleaved' = (interleaved \/ (written /\ OthersHold(p)))
    /\ req' = [req EXCEPT ![p] = Idle]
    /\ UNCHANGED <<feedbacks, clock, appliedSeq, racedPairs, rankOut>>
    /\ UNCHANGED others

\* DELETE /profile/reset: the attribute states when db.commit() is reached
ResetUserProfile(row) ==
    [ important_keywords |-> Assign(row.important_keywords, <<>>),
      important_contacts |-> Assign(row.important_contacts, <<>>),
      feedback_history |-> Assign(row.feedback_history, <<>>),
      ranking_weights |-> Assign(row.ranking_weights, NoWeights) ]

\* DELETE /profile/reset up to the profile query (no lazy creation here)
ResetLoad(p) ==
    /\ req[p].pc = "idle"
    /\ clock < MaxReqs
    /\ clock' = clock + 1
    /\ req' = [req EXCEPT ![p] =
          [LoadProfile(Idle, UserId) EXCEPT !.pc = "reset_commit", !.op = "reset",
              !.ts = clock + 1]]
    /\ UNCHANGED <<profiles, feedbacks, resp, appliedSeq, interleaved, racedPairs, rankOut>>
    /\ UNCHANGED others

ResetCommit(p, ok) ==
    /\ req[p].pc = "reset_commit"
    /\ LET r == req[p]
           written == r.rowid # 0 /\ ok
       IN  /\ profiles' = IF written
                          THEN Flushed(r.rowid, UserId, ResetUserProfile(r.row))
                          ELSE profiles
           /\ resp' = Response(r, "reset", IF r.rowid = 0 \/ ok THEN 200 ELSE 500,
                               r.rowid = 0 \/ ok, written)
           /\ appliedSeq' = IF written THEN <<>> ELSE appliedSeq
           /\ interleaved' = (interleaved \/ (written /\ OthersHold(p)))
    /\ req' = [req EXCEPT ![p] = Idle]
    /\ UNCHANGED <<feedbacks, clock, racedPairs, rankOut>>
    /\ UNCHANGED others

\* GET /profile: the profile query, the lazy creation and its commit
GetUserProfile(p, ok) ==
    /\ req[p].pc = "idle"
    /\ LET created == ~HasProfile(UserId) /\ ok
       IN  /\ profiles' = IF created THEN Append(profiles, NewProfileRow(UserId)) ELSE profiles
           /\ resp' = Response(Idle, "get", IF HasProfile(UserId) \/ ok THEN 200 ELSE 500,
                               HasProfile(UserId) \/ ok, created)
           /\ interleaved' = (interleaved \/ (created /\ OthersHold(p)))
    /\ UNCHANGED <<feedbacks, req, clock, appliedSeq, racedPairs, rankOut>>
    /\ UNCHANGED others

Next ==
    \/ \E p \in Procs, ok \in BOOLEAN : GetUserProfile(p, ok)
    \/ \E p \in Procs, r \in FeedbackRequests, ok \in BOOLEAN : SubmitFeedback(p, r, ok)
    \/ \E p \in Procs : FbLoad(p)
    \/ \E p \in Procs, c \in DirectCalls : DirectLoad(p, c)
    \/ \E p \in Procs, ok \in BOOLEAN : FbCommit(p, ok)
    \/ \E p \in Procs, b \in UpdateProfileRequests : PutLoad(p, b)
    \/ \E p \in Procs, ok \in BOOLEAN : PutCommit(p, ok)
    \/ \E p \in Procs : ResetLoad(p)
    \/ \E p \in Procs, ok \in BOOLEAN : ResetCommit(p, ok)

Spec == Init /\ [][Next]_vars

-----------------------------------------------------------------------------
(* services/ranking.py: ranking *)

DefaultWeights ==
    [f \in Factors |->
        CASE f = "semantic_relevance" -> 40
          [] f = "sender_importance" -> 25
          [] f = "urgency" -> 15
          [] f = "recency" -> 15
          [] f = "user_feedback" -> 5]

UrgencyKeywords ==
    { [keyword |-> <<"u","r","g","e","n","t">>, weight |-> 1000],
      [keyword |-> <<"a","s","a","p">>, weight |-> 900],
      [keyword |-> <<"i","m","m","e","d","i","a","t","e","l","y">>, weight |-> 900],
      [keyword |-> <<"d","e","a","d","l","i","n","e">>, weight |-> 800],
      [keyword |-> <<"d","u","e">>, weight |-> 700],
      [keyword |-> <<"s","u","b","m","i","t">>, weight |-> 600],
      [keyword |-> <<"c","o","m","p","l","e","t","e">>, weight |-> 500],
      [keyword |-> <<"a","t","t","e","n","d">>, weight |-> 500],
      [keyword |-> <<"m","e","e","t","i","n","g">>, weight |-> 400] }

Neutral == 500                    \* the neutral factor score 0.5
FallbackScore == 50000            \* the final score 0.5 of the fallback
DefaultLimit == 50

Max(a, b) == IF a >= b THEN a ELSE b
Min(a, b) == IF a <= b THEN a ELSE b
SetMax(S) == CHOOSE x \in S : \A y \in S : y <= x

\* sub in s
Contains(sub, s) ==
    \E i \in 1..(Len(s) - Len(sub) + 1) : SubSeq(s, i, i + Len(sub) - 1) = sub

\* text.strip() is empty
IsBlank(s) == \A i \in 1..Len(s) : s[i] = " "

\* An embedding backend emb is [kind, sim]: kind "none" when no backend yields
\* a vector (embed_text returns None), "raises" when the pipeline raises, and
\* "vectors" when it answers; sim[id] is then the cosine similarity (in
\* thousandths) its vectors give between the user's averaged keyword vector
\* and item id.

\* embed_text(text): None for blank text or when no backend yields a vector
Embeds(emb, text) == emb.kind = "vectors" /\ ~IsBlank(text)

\* the failure value written 0.0 in place of the neutral 0.5
CalculateSemanticRelevanceZero(item, important_keywords, emb) ==
    IF ~Truthy(important_keywords) THEN Neutral
    ELSE IF emb.kind # "vectors" THEN 0
    ELSE Max(0, (emb.sim[item.id] + 1000) \div 2)

CalculateSemanticRelevance(item, important_keywords, emb) ==
    IF ~Truthy(important_keywords) THEN Neutral
    ELSE IF emb.kind = "raises" THEN Neutral        \* except Exception: return 0.5
    ELSE IF \A k \in 1..Len(important_keywords) : ~Embeds(emb, important_keywords[k])
    THEN Neutral
    ELSE IF ~Embeds(emb, item.title \o <<" ">> \o item.summary) THEN Neutral
    ELSE Max(0, (emb.sim[item.id] + 1000) \div 2)

\* item.metadata.get(...) on the MetaData registry raises AttributeError
SenderImportanceRaises(item, important_contacts) ==
    Truthy(important_contacts) /\ item.metadata.kind # "dict"

CalculateSenderImportance(item, important_contacts) ==
    IF ~Truthy(important_contacts) THEN Neutral
    ELSE LET sender == Lower(MetaGet(item.metadata, "sender"))
             sender_email == Lower(MetaGet(item.metadata, "sender_email"))
         IN  IF \E k \in 1..Len(important_contacts) :
                    LET contact_lower == Lower(important_contacts[k])
                    IN  \/ Contains(contact_lower, sender)
                        \/ Contains(contact_lower, sender_email)
                        \/ Contains(sender, contact_lower)
                        \/ Contains(sender_email, contact_lower)
             THEN 1000
             ELSE 300

\* (due_date - datetime.now()).days is computed: fromisoformat accepts the
\* string and the result is offset-naive like datetime.now(); an offset-aware
\* result makes the subtraction raise TypeError, which `except: pass` drops
Subtracts(task) == task.form = "naive"

DueUrgency(days) == IF days <= 1 THEN 900 ELSE IF days <= 3 THEN 700 ELSE IF days <= 7 THEN 500 ELSE 0

PriorityUrgency(priority) ==
    IF priority = "urgent" THEN 900 ELSE IF priority = "high" THEN 700 ELSE 0

CalculateUrgency(item) ==
    LET text_to_check == Lower(item.title \o <<" ">> \o item.summary \o <<" ">> \o item.text)
        fromText == {kw.weight : kw \in {k \in UrgencyKeywords : Contains(k.keyword, text_to_check)}}
        fromTasks == {DueUrgency(item.extracted_tasks[i].due_date[1]) :
                         i \in {j \in 1..Len(item.extracted_tasks) :
                                   /\ Truthy(item.extracted_tasks[j].due_date)
                                   /\ Subtracts(item.extracted_tasks[j])}}
    IN  Min(1000, SetMax({0, PriorityUrgency(item.priority)} \cup fromText \cup fromTasks))

\* e^(-age_hours/24) in thousandths, for the ages the items carry
ExpDecay(age_hours) ==
    CASE age_hours = 0 - 5 -> 1231
      [] age_hours = 0 -> 1000
      [] age_hours = 19 -> 453
      [] age_hours = 24 -> 367
      [] age_hours = 48 -> 135
      [] age_hours = 72 -> 49

\* the decay without min(1.0, ...)
CalculateRecencyUncapped(item) == ExpDecay(item.age)

CalculateRecency(item) == Min(1000, ExpDecay(item.age))

\* datetime.now() moves between calls: the item as a call made `elapsed`
\* hours after the moment its age was taken sees it
Elapsed == {0, 24}
Aged(item, elapsed) ==
    [item EXCEPT
        !.age = @ + elapsed,
        !.extracted_tasks =
            Seq1([i \in 1..Len(@) |->
                    IF Truthy(@[i].due_date)
                    THEN TaskOf(<<@[i].due_date[1] - (elapsed \div 24)>>, @[i].form)
                    ELSE @[i]], Len(@))]

\* urgency and recency of each item at each moment, computed once
ItemUrgency == {<<it.id, h, CalculateUrgency(Aged(it, h))>> : it \in AllItems, h \in Elapsed}
ItemRecency == {<<it.id, h, CalculateRecency(Aged(it, h))>> : it \in AllItems, h \in Elapsed}
UrgencyOf(n, h) == (CHOOSE e \in ItemUrgency : e[1] = n /\ e[2] = h)[3]
RecencyOf(n, h) == (CHOOSE e \in ItemRecency : e[1] = n /\ e[2] = h)[3]

\* the query without its Feedback.user_id == user_id filter
CalculateFeedbackScoreAnyUser(user_id, cutoff) ==
    LET recent == SelectSeq(feedbacks, LAMBDA f : f.created_at >= cutoff)
        n(t) == Cardinality({i \in 1..Len(recent) : recent[i].feedback_type = t})
        count == n("like") + n("dislike") + n("complete") + n("snooze")
        total_score == 1000 * n("like") + 800 * n("complete") + 300 * n("snooze")
    IN  IF ~Truthy(recent) THEN Neutral
        ELSE IF count = 0 THEN Neutral
        ELSE total_score \div count

\* cutoff: the created_at value that lies 30 days before the call
CalculateFeedbackScore(user_id, cutoff) ==
    LET recent == SelectSeq(feedbacks, LAMBDA f : f.user_id = user_id /\ f.created_at >= cutoff)
        n(t) == Cardinality({i \in 1..Len(recent) : recent[i].feedback_type = t})
        count == n("like") + n("dislike") + n("complete") + n("snooze")
        total_score == 1000 * n("like") + 800 * n("complete") + 300 * n("snooze")
    IN  IF ~Truthy(recent) THEN Neutral
        ELSE IF count = 0 THEN Neutral
        ELSE total_score \div count

CalculateScoreBreakdown(item, row, important_keywords, important_contacts, emb, cutoff, elapsed) ==
    [f \in Factors |->
        CASE f = "semantic_relevance" -> CalculateSemanticRelevance(item, important_keywords, emb)
          [] f = "sender_importance" -> CalculateSenderImportance(item, important_contacts)
          [] f = "urgency" -> UrgencyOf(item.id, elapsed)
          [] f = "recency" -> RecencyOf(item.id, elapsed)
          [] f = "user_feedback" -> CalculateFeedbackScore(row.user_id, cutoff)]

\* the defaults applied only when the profile row is already stored
WeightsIfStored(row) ==
    IF row.ranking_weights # NoWeights THEN row.ranking_weights
    ELSE IF HasProfile(UserId) THEN DefaultWeights
    ELSE [f \in Factors |-> 0]

\* user_profile.ranking_weights or self.default_weights.copy()
Weights(row) == IF row.ranking_weights # NoWeights THEN row.ranking_weights ELSE DefaultWeights

Term(breakdown, weights, c) == IF c \in DOMAIN weights THEN breakdown[c] * weights[c] ELSE 0

\* sum(score_breakdown[component] * weights[component] for component in weights)
FinalScore(breakdown, weights) ==
    Term(breakdown, weights, "semantic_relevance") + Term(breakdown, weights, "sender_importance")
    + Term(breakdown, weights, "urgency") + Term(breakdown, weights, "recency")
    + Term(breakdown, weights, "user_feedback")

\* the sort without reverse=True
SortAscending(entries) ==
    LET before(i) == {j \in 1..Len(entries) :
                         \/ entries[j].final_score < entries[i].final_score
                         \/ (entries[j].final_score = entries[i].final_score /\ j < i)}
    IN  Seq1([k \in 1..Len(entries) |->
                 entries[CHOOSE i \in 1..Len(entries) : Cardinality(before(i)) = k - 1]],
             Len(entries))

\* list.sort(key=final_score, reverse=True): stable, ties keep their order
SortDescending(entries) ==
    LET before(i) == {j \in 1..Len(entries) :
                         \/ entries[j].final_score > entries[i].final_score
                         \/ (entries[j].final_score = entries[i].final_score /\ j < i)}
    IN  Seq1([k \in 1..Len(entries) |->
                 entries[CHOOSE i \in 1..Len(entries) : Cardinality(before(i)) = k - 1]],
             Len(entries))

Entry(pos, id, final_score, breakdown) ==
    [pos |-> pos, item |-> id, final_score |-> final_score, breakdown |-> breakdown]

NoBreakdown == [f \in {} |-> 0]

\* the except branch without the slice: every input item at 0.5
FallbackAll(ids, limit) ==
    Seq1([i \in 1..Len(ids) |-> Entry(i, ids[i], FallbackScore, NoBreakdown)], Len(ids))

\* the except branch: [(item, 0.5, {}) for item in feed_items[:limit]]
Fallback(ids, limit) ==
    LET kept == Prefix(ids, limit)
    IN  Seq1([i \in 1..Len(kept) |-> Entry(i, kept[i], FallbackScore, NoBreakdown)], Len(kept))

\* the try block.  db is "up", "down" (the profile query raises) or
\* "commit_fails" (the commit of a lazily created profile raises); elapsed is
\* the time of the call, in hours after the moment the items' ages were taken.
RankTry(ids, limit, db, emb, cutoff, elapsed) ==
    LET has == HasProfile(UserId)
        row == IF has THEN ProfileOf(UserId) ELSE NewProfileRow(UserId)
        weights == Weights(row)
        raises == \/ db = "down"
                  \/ (~has /\ db = "commit_fails")
                  \/ \E i \in 1..Len(ids) :
                        SenderImportanceRaises(ItemById(ids[i]), row.important_contacts)
                  \/ (ids # <<>> /\ \E c \in DOMAIN weights : c \notin Factors)
        scored == Seq1([i \in 1..Len(ids) |->
                          LET b == CalculateScoreBreakdown(ItemById(ids[i]), row,
                                        row.important_keywords, row.important_contacts,
                                        emb, cutoff, elapsed)
                          IN  Entry(i, ids[i], FinalScore(b, weights), b)], Len(ids))
    IN  [raised |-> raises,
         created |-> ~has /\ db = "up",
         weights |-> weights,
         scored |-> IF raises THEN <<>> ELSE scored,
         out |-> IF raises THEN <<>> ELSE Prefix(SortDescending(scored), limit)]

\* rank_feed_items: the try block, and the fallback when it raised
RankFeedItemsResult(ids, limit, db, emb, cutoff, elapsed) ==
    LET t == RankTry(ids, limit, db, emb, cutoff, elapsed)
    IN  [ids |-> ids, limit |-> limit, db |-> db, emb |-> emb, cutoff |-> cutoff,
         elapsed |-> elapsed, again |-> <<>>,
         raised |-> FALSE, failed |-> t.raised,
         weights |-> t.weights, scored |-> t.scored, created |-> t.created,
         out |-> IF t.raised THEN Fallback(ids, limit) ELSE t.out]

\* the inputs a ranking call is given
MaxItems == 2                                  \* longest feed_items list
ItemIds == {it.id : it \in AllItems}
FeedLists == UNION {[1..n -> ItemIds] : n \in 0..MaxItems}
Limits == {0, 1, 2, DefaultLimit}
SimTables ==
    { <<1000, 0 - 1000, 0, 600, 0 - 200>>,
      <<0 - 400, 900, 900, 100, 1000>> }
NoSim == <<0, 0, 0, 0, 0>>
Embedders ==
    {[kind |-> "none", sim |-> NoSim], [kind |-> "raises", sim |-> NoSim]}
    \cup {[kind |-> "vectors", sim |-> t] : t \in SimTables}
Cutoffs == {0, 2}

\* the stores a ranking call may find
FullWeights ==
    [f \in Factors |->
        CASE f = "semantic_relevance" -> 10
          [] f = "sender_importance" -> 10
          [] f = "urgency" -> 60
          [] f = "recency" -> 0
          [] f = "user_feedback" -> 120]
GammaNews == <<<<"g","a","m","m","a">>, <<"n","e","w","s">>>>
RankProfiles ==
    { <<>>,
      <<NewProfileRow(UserId)>>,
      <<[NewProfileRow(UserId) EXCEPT !.important_keywords = GammaNews,
                                      !.ranking_weights = PartialWeights]>>,
      <<[NewProfileRow(UserId) EXCEPT !.important_keywords = <<<<" ">>>>,
                                      !.important_contacts = <<Bob, BobMail>>]>>,
      <<[NewProfileRow(UserId) EXCEPT !.important_keywords = GammaNews,
                                      !.important_contacts = <<<<"c", "a">>>>,
                                      !.ranking_weights = FullWeights]>> }
OtherUser == UserId + 1            \* a user other than the one ranked for
FeedbackRow(id, t, ts) ==
    [user_id |-> UserId, feed_item_id |-> id, feedback_type |-> t, feedback_value |-> <<>>,
     created_at |-> ts]
RankFeedbacks ==
    { <<>>,
      <<FeedbackRow(1, "like", 1), FeedbackRow(2, "complete", 2)>>,
      <<FeedbackRow(1, "dismiss", 2)>>,
      <<FeedbackRow(1, "like", 1), FeedbackRow(1, "snooze", 2), FeedbackRow(3, "dislike", 3)>>,
      <<FeedbackRow(1, "complete", 1), [FeedbackRow(2, "like", 3) EXCEPT !.user_id = OtherUser],
        FeedbackRow(1, "dislike", 3), FeedbackRow(2, "dismiss", 3)>> }

InitRank ==
    /\ profiles \in RankProfiles
    /\ feedbacks \in RankFeedbacks
    /\ req = [p \in Procs |-> Idle]
    /\ clock = 0
    /\ resp = NoResponse
    /\ appliedSeq = <<>>
    /\ interleaved = FALSE
    /\ racedPairs = {}
    /\ rankOut = NoRank
    /\ NothingElse

\* one call of rank_feed_items(feed_items, user_id = 1, db, limit)
RankFeedItems(ids, limit, db, emb, cutoff) ==
    /\ rankOut = NoRank
    /\ LET res == RankFeedItemsResult(ids, limit, db, emb, cutoff, 0)
       IN  /\ rankOut' = res
           /\ profiles' = IF res.created THEN Append(profiles, NewProfileRow(UserId)) ELSE profiles
    /\ UNCHANGED <<feedbacks, req, clock, resp, appliedSeq, interleaved, racedPairs>>
    /\ UNCHANGED others

NextRank ==
    /\ rankOut = NoRank
    /\ \E ids \in FeedLists, limit \in Limits, db \in {"up", "down", "commit_fails"},
          emb \in Embedders, cutoff \in Cutoffs :
           RankFeedItems(ids, limit, db, emb, cutoff)

SpecRank == InitRank /\ [][NextRank]_vars

\* what may differ when rank_feed_items is called a second time with the same
\* arguments on the same store: the clock (and with it the 30-day window of
\* the feedback query) and the answer of the embedding backend
LaterCalls ==
    { [elapsed |-> 0, window |-> 0, backend |-> "same"],
      [elapsed |-> 24, window |-> 2, backend |-> "same"],
      [elapsed |-> 0, window |-> 0, backend |-> "none"] }

\* a second call of rank_feed_items with the arguments of the first
RankAgain(later) ==
    /\ rankOut # NoRank
    /\ rankOut.again = <<>>
    /\ LET emb == IF later.backend = "same" THEN rankOut.emb ELSE [rankOut.emb EXCEPT !.kind = "none"]
           res == RankFeedItemsResult(rankOut.ids, rankOut.limit, rankOut.db, emb,
                                      rankOut.cutoff + later.window, rankOut.elapsed + later.elapsed)
       IN  /\ rankOut' = [rankOut EXCEPT !.again = <<res>>]
           /\ profiles' = IF res.created THEN Append(profiles, NewProfileRow(UserId)) ELSE profiles
    /\ UNCHANGED <<feedbacks, req, clock, resp, appliedSeq, interleaved, racedPairs>>
    /\ UNCHANGED others

NextRepeat ==
    \/ /\ rankOut = NoRank
       /\ \E ids \in FeedLists, limit \in {1, DefaultLimit}, emb \in Embedders, cutoff \in Cutoffs :
             RankFeedItems(ids, limit, "up", emb, cutoff)
    \/ \E later \in LaterCalls : RankAgain(later)

SpecRepeat == InitRank /\ [][NextRepeat]_vars

-----------------------------------------------------------------------------
(* Properties of the feedback loop and the profile endpoints *)

HistoryTimestamps(row) ==
    Seq1([i \in 1..Len(row.feedback_history) |-> row.feedback_history[i].timestamp],
         Len(row.feedback_history))

\* the step is the commit (or rollback) that ends feedback application p
IsFbCommitStep(p) == req[p].pc = "fb_commit" /\ req'[p].pc = "idle"

\* C1: when two feedback applications for the same user overlap (each loaded
\* the profile before the other committed) and both commit, the stored
\* feedback_history holds the records of both.
C1_ConcurrentAppendsKept ==
    HasProfile(UserId) =>
        \A pr \in racedPairs :
            (InSeq(pr[1], appliedSeq) /\ InSeq(pr[2], appliedSeq)) =>
                /\ InSeq(pr[1], HistoryTimestamps(ProfileOf(UserId)))
                /\ InSeq(pr[2], HistoryTimestamps(ProfileOf(UserId)))

\* C2: a submission either persists both its Feedback row and its profile
\* change, or neither of them.
C2_SubmissionAtomic ==
    (resp.op = "submit" /\ resp.status = 200) =>
        ((\E i \in 1..Len(feedbacks) : feedbacks[i].created_at = resp.ts) <=> resp.applied)

\* C3: a submission whose persistence failed is answered with a failure.
C3_FailureSurfaced ==
    (resp.op = "submit" /\ ~resp.applied) => (~resp.success /\ resp.status # 200)

\* C6: important_keywords never holds more than 50 entries and
\* important_contacts never more than 20; a positive feedback that meets a
\* full list commits, is reported as a success, and adds nothing to that list.
C6_ListCaps ==
    [][ /\ \A i \in 1..Len(profiles') :
              /\ Len(profiles'[i].important_keywords) <= 50
              /\ Len(profiles'[i].important_contacts) <= 20
        /\ \A p \in Procs :
              (/\ IsFbCommitStep(p)
               /\ resp'.applied
               /\ req[p].rowid # 0)
              => /\ resp'.success
                 /\ Len(req[p].row.important_keywords) = 50
                       => profiles'[req[p].rowid].important_keywords
                              = profiles[req[p].rowid].important_keywords
                 /\ Len(req[p].row.important_contacts) = 20
                       => profiles'[req[p].rowid].important_contacts
                              \in {profiles[req[p].rowid].important_contacts,
                                   req[p].row.important_contacts} ]_vars

\* C6 witness: a liked item committed against a profile whose keyword list
\* is full, the item carrying a word the list does not hold
C6_Witness ==
    /\ resp.op \in {"submit", "direct"} /\ resp.applied /\ resp.success
    /\ resp.ftype = "like" /\ resp.fvalue = 10
    /\ HasProfile(UserId)
    /\ Len(ProfileOf(UserId).important_keywords) = 50
    /\ \E i \in 1..Len(KeywordsOf(resp.item)) :
          ~InSeq(KeywordsOf(resp.item)[i], ProfileOf(UserId).important_keywords)

\* C7: after any sequence of feedback applications that do not overlap, the
\* stored feedback_history is the last min(n, 100) applied records in order.
C7_HistoryIsLastApplied ==
    (~interleaved /\ HasProfile(UserId)) =>
        HistoryTimestamps(ProfileOf(UserId)) = Suffix(appliedSeq, 100)

\* C8: a feedback whose type is not like or complete, or whose value is at
\* most 0.5, leaves important_keywords, important_contacts and
\* ranking_weights of every profile as they were; all it may change is the
\* feedback_history, by the record it appends.
C8_NonPositiveFrame ==
    [][ \A p \in Procs :
          (/\ IsFbCommitStep(p)
           /\ (req[p].ftype \notin {"like", "complete"} \/ req[p].fvalue <= 5))
          => LET rec == HistoryRecord(ItemById(req[p].item), req[p].ftype, req[p].fvalue, req[p].ts)
                 appended == Suffix(Append(req[p].row.feedback_history, rec), 100)
             IN  /\ Len(profiles') >= Len(profiles)
                 /\ \A i \in 1..Len(profiles) :
                       /\ profiles'[i].important_keywords = profiles[i].important_keywords
                       /\ profiles'[i].important_contacts = profiles[i].important_contacts
                       /\ profiles'[i].ranking_weights = profiles[i].ranking_weights
                       /\ profiles'[i].feedback_history \in {profiles[i].feedback_history, appended}
                 /\ \A i \in (Len(profiles) + 1)..Len(profiles') :
                       /\ profiles'[i].important_keywords = <<>>
                       /\ profiles'[i].important_contacts = <<>>
                       /\ profiles'[i].ranking_weights = NoWeights
                       /\ profiles'[i].feedback_history = appended ]_vars

\* C8 witness: a "complete" with the default value 0.5 was committed against
\* a profile that holds keywords
C8_Witness ==
    /\ resp.op = "submit" /\ resp.applied
    /\ resp.ftype = "complete" /\ resp.fvalue = 5
    /\ HasProfile(UserId)
    /\ ProfileOf(UserId).important_keywords # <<>>

\* C9: a "like" with value 1.0 on an item whose title contains a five-letter
\* alphabetic word that the profile's important_keywords does not hold, the
\* list having room for every word of the item, leaves that word (lower-cased)
\* in important_keywords once it has committed.
C9_LikeAddsNovelWord ==
    [][ \A p \in Procs :
          (/\ IsFbCommitStep(p)
           /\ resp'.applied
           /\ ~interleaved'
           /\ req[p].ftype = "like" /\ req[p].fvalue = 10
           /\ Len(req[p].row.important_keywords) + Len(KeywordsOf(req[p].item)) <= 50)
          => \A w \in {x \in {Split(Lower(ItemById(req[p].item).title))[k] :
                                 k \in 1..Len(Split(Lower(ItemById(req[p].item).title)))} :
                          Len(x) = 5 /\ IsAlpha(x)} :
                ~InSeq(w, req[p].row.important_keywords)
                   => InSeq(w, ProfileOf(UserId).important_keywords') ]_vars

-----------------------------------------------------------------------------
(* Properties of ranking *)

OutItems == Seq1([k \in 1..Len(rankOut.out) |-> rankOut.out[k].item], Len(rankOut.out))

\* C4 as stated: rank_feed_items never raises, and when the profile load, the
\* lazy creation or the scoring of an item fails it returns the input items,
\* each with final score 0.5.
C4_FallbackReturnsInput ==
    (rankOut # NoRank) =>
        /\ ~rankOut.raised
        /\ rankOut.failed =>
              /\ OutItems = rankOut.ids
              /\ \A k \in 1..Len(rankOut.out) : rankOut.out[k].final_score = 50000

\* C4 amended: rank_feed_items never raises, and when the profile load, the
\* lazy creation or the scoring of an item fails it returns the first `limit`
\* input items in input order, each with final score 0.5 and an empty breakdown.
C4_FallbackReturnsFirstLimit ==
    (rankOut # NoRank) =>
        /\ ~rankOut.raised
        /\ rankOut.failed =>
              /\ OutItems = Prefix(rankOut.ids, rankOut.limit)
              /\ \A k \in 1..Len(rankOut.out) :
                    /\ rankOut.out[k].final_score = 50000
                    /\ DOMAIN rankOut.out[k].breakdown = {}

\* C4 witness: a failed call that was given more items than its limit
C4_Witness ==
    /\ rankOut # NoRank
    /\ rankOut.failed
    /\ rankOut.limit >= 1
    /\ Len(rankOut.ids) > rankOut.limit
    /\ Len(rankOut.out) = rankOut.limit

\* C5: the final score of every ranked item is the sum over the five factors
\* of factor score times effective weight, the effective weight of a factor
\* being the profile's ranking_weights entry when there is one and the
\* default weight otherwise.
C5_MergedWeights ==
    (rankOut # NoRank /\ ~rankOut.failed) =>
        LET own == ProfileOf(UserId).ranking_weights
            effective(f) == IF f \in DOMAIN own THEN own[f] ELSE DefaultWeights[f]
        IN  \A k \in 1..Len(rankOut.out) :
               LET e == rankOut.out[k]
               IN  e.final_score =
                       e.breakdown["semantic_relevance"] * effective("semantic_relevance")
                       + e.breakdown["sender_importance"] * effective("sender_importance")
                       + e.breakdown["urgency"] * effective("urgency")
                       + e.breakdown["recency"] * effective("recency")
                       + e.breakdown["user_feedback"] * effective("user_feedback")

\* C10: rank_feed_items returns at most `limit` entries in non-increasing
\* final_score order; every entry is one of the input items with the score
\* computed for it, no input item is returned twice, and no omitted input
\* item has a strictly higher final score than a returned one.
C10_RankOutput ==
    (rankOut # NoRank) =>
        LET out == rankOut.out
            returned == {out[k].pos : k \in 1..Len(out)}
        IN  /\ Len(out) <= rankOut.limit
            /\ \A k \in 1..(Len(out) - 1) : out[k].final_score >= out[k + 1].final_score
            /\ \A k \in 1..Len(out) :
                  /\ out[k].pos \in 1..Len(rankOut.ids)
                  /\ out[k].item = rankOut.ids[out[k].pos]
                  /\ ~rankOut.failed => out[k] = rankOut.scored[out[k].pos]
            /\ \A k, l \in 1..Len(out) : out[k].pos = out[l].pos => k = l
            /\ ~rankOut.failed =>
                  \A j \in (1..Len(rankOut.ids)) \ returned :
                     \A k \in 1..Len(out) :
                        rankOut.scored[j].final_score <= out[k].final_score

\* C10 witness: the later of two scored items has the higher score and the
\* limit leaves room for one
C10_Witness ==
    /\ rankOut # NoRank
    /\ ~rankOut.failed
    /\ Len(rankOut.ids) = 2
    /\ rankOut.limit = 1
    /\ rankOut.scored[1].final_score < rankOut.scored[2].final_score
    /\ Len(rankOut.out) = 1
    /\ rankOut.out[1].pos = 2

\* C11: every factor score in the breakdown of every scored item lies within
\* [0.0, 1.0], also for an item dated in the future, an item whose text holds
\* several urgency keywords and any mix of feedback records.
C11_FactorsInRange ==
    (rankOut # NoRank) =>
        /\ \A k \in 1..Len(rankOut.scored) :
              \A f \in Factors :
                 0 <= rankOut.scored[k].breakdown[f] /\ rankOut.scored[k].breakdown[f] <= 1000
        /\ \A k \in 1..Len(rankOut.out) :
              \A f \in DOMAIN rankOut.out[k].breakdown :
                 0 <= rankOut.out[k].breakdown[f] /\ rankOut.out[k].breakdown[f] <= 1000

\* C11 witness: one call scored the item dated in the future and the item
\* with three urgency keywords, against feedback of mixed types
C11_Witness ==
    /\ rankOut # NoRank
    /\ ~rankOut.failed
    /\ Len(rankOut.out) = 2
    /\ \E k \in 1..2 : rankOut.out[k].item = 4 /\ rankOut.out[k].breakdown["recency"] = 1000
    /\ \E k \in 1..2 : rankOut.out[k].item = 2 /\ rankOut.out[k].breakdown["urgency"] = 1000
    /\ rankOut.out[1].breakdown["user_feedback"] \notin {0, 500, 1000}

\* C12: with the embedding provider failing (every embed call returns None or
\* raises) semantic_relevance is exactly 0.5 for every item, with or without
\* important keywords, and the ranking completes with the other four factors
\* computed as they are otherwise.
C12_EmbeddingFailureNeutral ==
    (rankOut # NoRank /\ rankOut.emb.kind \in {"none", "raises"}) =>
        /\ ~rankOut.raised
        /\ rankOut.failed =>
              \/ rankOut.db # "up"
              \/ \E i \in 1..Len(rankOut.ids) :
                    /\ ItemById(rankOut.ids[i]).metadata.kind # "dict"
                    /\ ProfileOf(UserId).important_contacts # <<>>
        /\ \A k \in 1..Len(rankOut.scored) :
              LET e == rankOut.scored[k]
                  it == ItemById(e.item)
              IN  /\ e.breakdown["semantic_relevance"] = 500
                  /\ e.breakdown["sender_importance"]
                         = CalculateSenderImportance(it, ProfileOf(UserId).important_contacts)
                  /\ e.breakdown["urgency"] = UrgencyOf(e.item, 0)
                  /\ e.breakdown["recency"] = RecencyOf(e.item, 0)
                  /\ e.breakdown["user_feedback"] = CalculateFeedbackScore(UserId, rankOut.cutoff)

\* C12 witness: the pipeline raised for a user who has keywords, and two
\* items were still ranked by their other factors
C12_Witness ==
    /\ rankOut # NoRank
    /\ rankOut.emb.kind = "raises"
    /\ ~rankOut.failed
    /\ ProfileOf(UserId).important_keywords # <<>>
    /\ Len(rankOut.out) = 2
    /\ rankOut.out[1].final_score > rankOut.out[2].final_score

\* what a call returns: the ordering, the final scores and the breakdowns
Returned(res) == [failed |-> res.failed, out |-> res.out]

MaxStored == 3

UserIds == {1, 2}
OriginIds == {<<"a">>, <<"b">>}
Titles == {"v1", "v2"}

\* a FeedItem as far as the duplicate check reads it
FeedItemRow(user_id, source, origin_id, title) ==
    [user_id |-> user_id, source |-> source, origin_id |-> origin_id, title |-> title]

\* db.query(FeedItem).filter(origin_id, user_id, source).first() on committed rows
Existing(table, user_id, source, origin_id) ==
    \E i \in 1..Len(table) :
        /\ table[i].user_id = user_id
        /\ table[i].source = source
        /\ table[i].origin_id = origin_id

\* the loop of save_feed_items_with_embeddings: query, skip or add and commit
RECURSIVE SaveEach(_, _)
SaveEach(table, feed_items) ==
    IF feed_items = <<>> THEN table
    ELSE LET feed_item == Head(feed_items)
             existing == Existing(table, feed_item.user_id, feed_item.source,
                                  feed_item.origin_id)
         IN SaveEach(IF existing THEN table ELSE Append(table, feed_item),
                     Tail(feed_items))

\* the loop of _fetch_and_process_emails: every query runs against the rows
\* committed before the batch (the session does not autoflush), so each item
\* whose key is not committed yet is added
PendingEmails(table, user_id, feed_items) ==
    SelectSeq(feed_items,
              LAMBDA item : ~Existing(table, user_id, "gmail", item.origin_id))

\* what a connector hands to its save path for one user
Batches(source) ==
    LET one(u) == { FeedItemRow(u, source, o, t) : o \in OriginIds, t \in Titles }
    IN UNION { { <<a>> : a \in one(u) } \cup { <<a, b>> : a \in one(u), b \in one(u) }
               : u \in UserIds }

\* context events: source, user, package, timestamp
ContextEvents ==
    [source : {"notification", "accessibility"}, user_id : UserIds,
     package : {"pkg"}, timestamp : {"0", "1"}, title : {"v1"}]

\* WhatsAppConnector.save_feed_items_with_embeddings; the first done items are
\* handled before an exception ends the loop (done = Len: no exception)
SaveFeedItemsWithEmbeddings(feed_items, done) ==
    /\ Len(feedItems) + Len(feed_items) <= MaxStored
    /\ feedItems' = SaveEach(feedItems, SubSeq(feed_items, 1, done))
    /\ UNCHANGED <<core, pureVars, savers, storeVars, jobVars>>

\* _fetch_and_process_emails: one commit for the batch, or none if it raises
FetchAndProcessEmails(feed_items, ok) ==
    /\ Len(feedItems) + Len(feed_items) <= MaxStored
    /\ feedItems' = IF ok
                    THEN feedItems \o PendingEmails(feedItems, feed_items[1].user_id, feed_items)
                    ELSE feedItems
    /\ UNCHANGED <<core, pureVars, savers, storeVars, jobVars>>

\* process_context_event: builds the item and commits it
ProcessContextEvent(event) ==
    /\ Len(feedItems) < MaxStored
    /\ LET src == IF event.source = "notification" THEN "news" ELSE "instagram"
           safe_origin == <<"ctx", event.package, event.timestamp>>
       IN feedItems' = Append(feedItems,
                              FeedItemRow(event.user_id, src, safe_origin, event.title))
    /\ UNCHANGED <<core, pureVars, savers, storeVars, jobVars>>

NextIngest ==
    \/ \E feed_items \in Batches("whatsapp"), done \in 0..2 :
           done <= Len(feed_items) /\ SaveFeedItemsWithEmbeddings(feed_items, done)
    \/ \E feed_items \in Batches("gmail"), ok \in BOOLEAN :
           FetchAndProcessEmails(feed_items, ok)
    \/ \E event \in ContextEvents : ProcessContextEvent(event)

SpecIngest == Init /\ [][NextIngest]_vars

\* C14: after any sequence of saves from the ingestion paths the table holds
\* at most one row per (user_id, source, origin_id), also when a key occurs
\* twice within one batch.
C14_OneItemPerKey ==
    \A i, j \in 1..Len(feedItems) :
        (/\ feedItems[i].user_id = feedItems[j].user_id
         /\ feedItems[i].source = feedItems[j].source
         /\ feedItems[i].origin_id = feedItems[j].origin_id) => i = j


\* C15: a PUT /profile whose ranking_weights names a key outside the five
\* factors answers 400 and leaves every stored profile as it was, the other
\* fields of the same request included; so the stored ranking_weights keys are
\* always among the five factor names.
C15_InvalidWeightsRejected ==
    [][ LET five == {"semantic_relevance", "sender_importance", "urgency", "recency",
                     "user_feedback"}
        IN /\ \A i \in 1..Len(profiles') : DOMAIN profiles'[i].ranking_weights \subseteq five
           /\ \A p \in Procs :
                 (/\ req[p].pc = "put_commit"
                  /\ req'[p].pc = "idle"
                  /\ req[p].body.ranking_weights # <<>>
                  /\ ~(DOMAIN req[p].body.ranking_weights[1] \subseteq five))
                 => /\ profiles' = profiles
                    /\ resp'.status = 400
                    /\ ~resp'.success ]_vars

\* a PUT with an unknown key and two keywords was answered 400 while the
\* profile holds the weights of an earlier PUT and no keywords
C15_Witness ==
    /\ resp.op = "put"
    /\ resp.status = 400
    /\ Len(profiles) = 1
    /\ profiles[1].ranking_weights = PartialWeights
    /\ profiles[1].important_keywords = <<>>


\* C16: in every reachable state there is at most one profile row per user,
\* also when requests of a user who has no profile yet overlap and each of
\* them creates it.
C16_OneProfilePerUser ==
    \A i, j \in 1..Len(profiles) :
        profiles[i].user_id = profiles[j].user_id => i = j


\* ---------------------------------------------------------------------
\* Vector store: add_embedding, search_by_embedding, rebuild
\* ---------------------------------------------------------------------

\* vectors the index may hold before add_embedding stops being called
MaxVectors == 3

\* feed items that have a vector, their owner, and the inner product of
\* their normalised vector with the query, in thousandths
VecItems == {1, 2, 3, 4}
Owner == (1 :> 1) @@ (2 :> 2) @@ (3 :> 1) @@ (4 :> 2)
Score == (1 :> 900) @@ (2 :> 950) @@ (3 :> 400) @@ (4 :> 800)

\* user_id=None, as the module-level add_embedding passes it
NoUser == 0

\* rows whose embedding column is set (the Gmail, news and Reddit connectors
\* write it; the WhatsApp path only feeds the index)
EmbeddedInDb == {1, 2, 3}

TopKs == {1, 2, 10}
Thresholds == {0, 500}

\* self.index.add(...); self.id_mapping[self.index.ntotal - 1] = (feed_item_id, user_id)
AddTo(store, feed_item_id, user_id) ==
    LET idx == Append(store[1], feed_item_id)
        n == Len(idx)
        map == store[2]
    IN <<idx,
         IF n <= Len(map) THEN [map EXCEPT ![n] = <<feed_item_id, user_id>>]
         ELSE Append(map, <<feed_item_id, user_id>>)>>

\* index.search(query, top_k): the FAISS ids of the top_k best inner products
\* over every stored vector, best first
FaissSearch(idx, top_k) ==
    LET n == Len(idx)
        better(a, b) == \/ Score[idx[a]] > Score[idx[b]]
                        \/ (Score[idx[a]] = Score[idx[b]] /\ a < b)
        pos(a) == Cardinality({ b \in 1..n : better(b, a) })
    IN Seq1([p \in 1..Min(top_k, n) |-> (CHOOSE a \in 1..n : pos(a) = p - 1) - 1],
            Min(top_k, n))

\* VectorStore.search_by_embedding
SearchByEmbedding(idx, map, user_id, top_k, threshold) ==
    IF Len(idx) = 0 THEN <<>>
    ELSE LET hits == FaissSearch(idx, top_k)
             kept == SelectSeq(hits, LAMBDA i :
                         /\ i + 1 <= Len(map)
                         /\ map[i + 1][2] = user_id
                         /\ Score[idx[i + 1]] >= threshold)
         IN Seq1([j \in 1..Len(kept) |->
                     [feed_item_id |-> map[kept[j] + 1][1],
                      similarity_score |-> Score[idx[kept[j] + 1]]]], Len(kept))

\* the rows a rebuild reads: all with an embedding, of one user, or all but one
RebuildQueries ==
    { [kind |-> "all", arg |-> 0] }
        \cup { [kind |-> "user", arg |-> u] : u \in {1, 2} }
        \cup { [kind |-> "excluding", arg |-> i] : i \in VecItems }

FeedItemsFor(q) ==
    SelectSeq(<<1, 2, 3, 4>>, LAMBDA i :
        /\ i \in EmbeddedInDb
        /\ q.kind = "user" => Owner[i] = q.arg
        /\ q.kind = "excluding" => i # q.arg)

\* the index a rebuild over these rows ends with
RECURSIVE Rebuilt(_, _)
Rebuilt(store, feed_items) ==
    IF feed_items = <<>> THEN store
    ELSE Rebuilt(AddTo(store, Head(feed_items), Owner[Head(feed_items)]), Tail(feed_items))

\* the handlers are coroutines without an await between their first and last
\* access to the store: one runs only when no other holds the event loop
LoopFreeAlways(l) == TRUE

LoopFree(l) == l.pc = "idle"

\* the store after `if not self._initialized: self._initialize_index()`: on
\* first use the index and the id mapping are read from the index file
Opened == IF vstore.initialized THEN <<index, idMapping>> ELSE vstore.file

\* finally: self._initialized = True
Initialized == [vstore EXCEPT !.initialized = TRUE]

\* VectorStore.add_embedding, from a connector (owner known) or from the
\* module-level add_embedding (owner None)
AddEmbedding(feed_item_id, user_id) ==
    /\ Len(Opened[1]) < MaxVectors
    /\ \A p \in 1..Len(Opened[1]) : Opened[1][p] # feed_item_id
    /\ index' = AddTo(Opened, feed_item_id, user_id)[1]
    /\ idMapping' = AddTo(Opened, feed_item_id, user_id)[2]
    /\ vstore' = Initialized
    /\ UNCHANGED <<core, pureVars, savers, feedItems, loop, searchOut, jobVars>>

\* rebuild_index / _rebuild_index_excluding: the query and self.index = <fresh index>
RebuildStart(q) ==
    /\ q.kind = "excluding" =>
           \E p \in 1..Len(idMapping) : idMapping[p][1] = q.arg
    /\ loop' = [pc |-> "reset", todo |-> FeedItemsFor(q), all |-> FeedItemsFor(q),
                before |-> <<index, idMapping>>]
    /\ index' = <<>>
    /\ UNCHANGED <<core, pureVars, savers, feedItems, idMapping, searchOut, vstore, jobVars>>

\* self.id_mapping = {}
RebuildReset ==
    /\ loop.pc = "reset"
    /\ idMapping' = <<>>
    /\ loop' = [loop EXCEPT !.pc = "adding"]
    /\ UNCHANGED <<core, pureVars, savers, feedItems, index, searchOut, vstore, jobVars>>

\* one round of: for item in feed_items: self.add_embedding(item.id, embedding, user_id=item.user_id)
RebuildAdd ==
    /\ loop.pc = "adding"
    /\ loop.todo # <<>>
    /\ LET item == Head(loop.todo)
       IN /\ index' = AddTo(Opened, item, Owner[item])[1]
          /\ idMapping' = AddTo(Opened, item, Owner[item])[2]
    /\ vstore' = Initialized
    /\ loop' = [loop EXCEPT !.todo = Tail(loop.todo)]
    /\ UNCHANGED <<core, pureVars, savers, feedItems, searchOut, jobVars>>

\* the loop is over and the handler returns; loop.before keeps what the
\* rebuild replaced
RebuildDone ==
    /\ loop.pc = "adding"
    /\ loop.todo = <<>>
    /\ loop' = [loop EXCEPT !.pc = "idle"]
    /\ UNCHANGED <<core, pureVars, savers, feedItems, index, idMapping, searchOut, vstore, jobVars>>

\* what a call of search_by_embedding leaves in searchOut
SearchRecord(request, status, searched, user_id, top_k, threshold, results) ==
    [request |-> request, status |-> status, searched |-> searched,
     user_id |-> user_id, top_k |-> top_k, threshold |-> threshold,
     seen |-> Opened,
     replaced |-> loop.before,
     before |-> IF loop.pc = "idle" THEN Opened ELSE loop.before,
     after |-> IF loop.pc = "idle" THEN Opened
               ELSE Rebuilt(<<<<>>, <<>>>>, loop.all),
     results |-> results]

\* one call of search_by_embedding, with the store as it finds it
Search(user_id, top_k, threshold) ==
    /\ searchOut' = SearchRecord(<<>>, 0, TRUE, user_id, top_k, threshold,
                                 SearchByEmbedding(Opened[1], Opened[2], user_id, top_k, threshold))
    /\ index' = Opened[1]
    /\ idMapping' = Opened[2]
    /\ vstore' = Initialized
    /\ UNCHANGED <<core, pureVars, savers, feedItems, loop, jobVars>>

\* the source of each feed item, for source_filter
SourceOf == (1 :> "gmail") @@ (2 :> "gmail") @@ (3 :> "news") @@ (4 :> "whatsapp")

DefaultTopK == 10
MaxTopK == 100
MaxThreshold == 1000

\* queries: blank, one the embedder answers, one it cannot embed
BlankQuery == <<" ">>
GoodQuery == <<"q">>
DeadQuery == <<"x">>

\* SearchRequest bodies; top_k, threshold and source_filter are optional
SearchRequestOf(query, top_k, threshold, source_filter) ==
    [query |-> query, top_k |-> top_k, threshold |-> threshold,
     source_filter |-> source_filter]

SearchRequests ==
    { SearchRequestOf(BlankQuery, <<>>, <<>>, <<>>),
      SearchRequestOf(DeadQuery, <<>>, <<>>, <<>>),
      SearchRequestOf(GoodQuery, <<2>>, <<>>, <<"gmail">>) }
        \cup { SearchRequestOf(GoodQuery, <<k>>, <<>>, <<>>) : k \in {-1, 0, 1, 100, 101} }
        \cup { SearchRequestOf(GoodQuery, <<>>, <<t>>, <<>>) : t \in {-100, 0, 500, 1000, 1500} }

\* truthiness of an optional number: None and 0 are falsy
TruthyNumber(opt) == opt # <<>> /\ opt[1] # 0

\* request.top_k or 10, request.threshold or 0.0
OrDefault(opt, default) == IF TruthyNumber(opt) THEN opt[1] ELSE default

\* the status semantic_search answers with before it searches, 0 if it goes on
ValidateSearch(request) ==
    IF ~Truthy(request.query) \/ IsBlank(request.query) THEN 400
    ELSE IF TruthyNumber(request.top_k)
            /\ (request.top_k[1] < 1 \/ request.top_k[1] > MaxTopK) THEN 400
    ELSE IF TruthyNumber(request.threshold)
            /\ (request.threshold[1] < 0 \/ request.threshold[1] > MaxThreshold) THEN 400
    ELSE 0

\* POST /search for the default user
SemanticSearch(request) ==
    /\ LET status == ValidateSearch(request)
           top_k == OrDefault(request.top_k, DefaultTopK)
           threshold == OrDefault(request.threshold, 0)
           embedded == request.query = GoodQuery
           found == IF embedded
                    THEN SearchByEmbedding(Opened[1], Opened[2], UserId, top_k, threshold)
                    ELSE <<>>
           filtered == IF Truthy(request.source_filter)
                       THEN SelectSeq(found, LAMBDA r :
                                SourceOf[r.feed_item_id] = request.source_filter[1])
                       ELSE found
       IN searchOut' =
             IF status # 0
             THEN SearchRecord(<<request>>, status, FALSE, UserId, 0, 0, <<>>)
             ELSE SearchRecord(<<request>>, 200, embedded, UserId, top_k, threshold, filtered)
    /\ LET reached == ValidateSearch(request) = 0 /\ request.query = GoodQuery
       IN /\ index' = IF reached THEN Opened[1] ELSE index
          /\ idMapping' = IF reached THEN Opened[2] ELSE idMapping
          /\ vstore' = IF reached THEN Initialized ELSE vstore
    /\ UNCHANGED <<core, pureVars, savers, feedItems, loop, jobVars>>

NextSearch ==
    \/ /\ searchOut = NoSearch /\ LoopFree(loop)
       /\ \E feed_item_id \in VecItems, known \in BOOLEAN :
             AddEmbedding(feed_item_id, IF known THEN Owner[feed_item_id] ELSE NoUser)
    \/ /\ searchOut = NoSearch /\ LoopFree(loop)
       /\ \E q \in RebuildQueries : RebuildStart(q)
    \/ (searchOut = NoSearch /\ RebuildReset)
    \/ (searchOut = NoSearch /\ RebuildAdd)
    \/ (searchOut = NoSearch /\ RebuildDone)
    \/ /\ searchOut = NoSearch /\ LoopFree(loop)
       /\ \E user_id \in {1, 2}, top_k \in TopKs, threshold \in Thresholds :
             Search(user_id, top_k, threshold)
    \/ /\ searchOut = NoSearch /\ LoopFree(loop)
       /\ \E request \in SearchRequests : SemanticSearch(request)

SpecSearch == Init /\ [][NextSearch]_vars

\* C17: search_by_embedding for user u with top_k = k returns the k
\* highest-scoring vectors at or above the threshold among the vectors owned
\* by u, all of them if there are fewer than k; vectors of other users never
\* reduce the number of results.
C17_TopKOfOwner ==
    (searchOut # NoSearch /\ searchOut.request = <<>>) =>
        LET idx == searchOut.seen[1]
            map == searchOut.seen[2]
            own == { p \in 1..Len(idx) :
                        /\ p <= Len(map)
                        /\ map[p][2] = searchOut.user_id
                        /\ Score[idx[p]] >= searchOut.threshold }
            res == searchOut.results
            got == { res[j].feed_item_id : j \in 1..Len(res) }
        IN /\ Len(res) = Min(searchOut.top_k, Cardinality(own))
           /\ \A j \in 1..Len(res) : \E p \in own : idx[p] = res[j].feed_item_id
           /\ \A p \in own : idx[p] \notin got =>
                 \A j \in 1..Len(res) : res[j].similarity_score >= Score[idx[p]]


C19_OutOfRangeRejected ==
    (searchOut # NoSearch /\ searchOut.request # <<>>) =>
        LET request == searchOut.request[1]
        IN ((\/ (request.top_k # <<>>
                 /\ (request.top_k[1] < 1 \/ request.top_k[1] > 100))
             \/ (request.threshold # <<>>
                 /\ (request.threshold[1] < 0 \/ request.threshold[1] > 1000)))
            /\ request.query = GoodQuery)
           => (searchOut.status = 400 /\ ~searchOut.searched)


\* ---------------------------------------------------------------------
\* Background jobs: JobQueue and the worker loop
\* ---------------------------------------------------------------------

\* jobs create_job makes before the endpoints stop enqueuing
MaxJobs == 3

Priorities == {0, 1, 2}
Finished == {"completed", "failed", "cancelled"}

\* BackgroundJob.__init__; starts counts the calls of start_job for the job,
\* done says that completed_at is set
BackgroundJob(job_id, priority) ==
    [job_id |-> job_id, priority |-> priority, status |-> "pending", starts |-> 0,
     done |-> FALSE]

\* the position in q of the job with this id
JobAt(q, job_id) == CHOOSE i \in 1..Len(q) : q[i].job_id = job_id

\* a get_next_job that does not look at the status
GetNextJobAnyStatus(q) ==
    IF q = <<>> THEN 0
    ELSE LET best == CHOOSE i \in 1..Len(q) :
                        \A k \in 1..Len(q) :
                            \/ q[i].priority > q[k].priority
                            \/ (q[i].priority = q[k].priority /\ i <= k)
         IN q[best].job_id

\* JobQueue.get_next_job: the id of the first job of the pending ones sorted
\* by priority, highest first (the sort is stable); 0 for None
GetNextJob(q) ==
    LET pending_jobs == SelectSeq(q, LAMBDA job : job.status = "pending")
    IN IF pending_jobs = <<>> THEN 0
       ELSE LET best == CHOOSE i \in 1..Len(pending_jobs) :
                           \A k \in 1..Len(pending_jobs) :
                               \/ pending_jobs[i].priority > pending_jobs[k].priority
                               \/ (pending_jobs[i].priority = pending_jobs[k].priority
                                   /\ i <= k)
            IN pending_jobs[best].job_id

\* create_job and JobQueue.enqueue_job, from the job endpoints
EnqueueJob(priority) ==
    /\ made < MaxJobs
    /\ made' = made + 1
    /\ jobs' = Append(jobs, BackgroundJob(made + 1, priority))
    /\ UNCHANGED <<core, pureVars, savers, feedItems, storeVars, worker>>

\* one round of _worker_loop up to its await: get_next_job, then sleep or start_job
WorkerTake ==
    /\ worker.pc = "idle"
    /\ LET job == GetNextJob(jobs)
       IN IF job = 0
          THEN /\ worker' = [pc |-> "sleeping", job |-> 0]
               /\ jobs' = jobs
          ELSE /\ worker' = [pc |-> "running", job |-> job]
               /\ jobs' = [jobs EXCEPT ![JobAt(jobs, job)] =
                              [@ EXCEPT !.status = "running", !.starts = @ + 1]]
    /\ UNCHANGED <<core, pureVars, savers, feedItems, storeVars, made>>

\* await asyncio.sleep(5) is over
WorkerWake ==
    /\ worker.pc = "sleeping"
    /\ worker' = WorkerIdle
    /\ UNCHANGED <<core, pureVars, savers, feedItems, storeVars, jobs, made>>

\* a worker loop that ends when a handler raises
AfterJobStopsOnFailure(ok) == IF ok THEN WorkerIdle ELSE [pc |-> "stopped", job |-> 0]

\* where the worker loop is after complete_job or fail_job: `except Exception`
\* around the handler keeps it in the while loop
AfterJob(ok) == WorkerIdle

\* the handler returned (complete_job) or raised (fail_job)
WorkerFinish(ok) ==
    /\ worker.pc = "running"
    /\ jobs' = [jobs EXCEPT ![JobAt(jobs, worker.job)] =
                   [@ EXCEPT !.status = IF ok THEN "completed" ELSE "failed",
                             !.done = TRUE]]
    /\ worker' = AfterJob(ok)
    /\ UNCHANGED <<core, pureVars, savers, feedItems, storeVars, made>>

\* JobQueue.cancel_job
CancelJob(job_id) ==
    /\ \E i \in 1..Len(jobs) : jobs[i].job_id = job_id
    /\ LET i == JobAt(jobs, job_id)
       IN jobs' = IF jobs[i].status = "pending"
                  THEN [jobs EXCEPT ![i] = [@ EXCEPT !.status = "cancelled", !.done = TRUE]]
                  ELSE IF jobs[i].status = "running"
                  THEN [jobs EXCEPT ![i] = [@ EXCEPT !.status = "cancelled"]]
                  ELSE jobs
    /\ UNCHANGED <<core, pureVars, savers, feedItems, storeVars, made, worker>>

\* JobQueue.cleanup_old_jobs: old is the set of ids whose completed_at is
\* before the cutoff
CleanupOldJobs(old) ==
    /\ old # {}
    /\ \A job_id \in old :
          \E i \in 1..Len(jobs) :
              jobs[i].job_id = job_id /\ jobs[i].status \in Finished /\ jobs[i].done
    /\ jobs' = SelectSeq(jobs, LAMBDA job : job.job_id \notin old)
    /\ UNCHANGED <<core, pureVars, savers, feedItems, storeVars, made, worker>>

NextJobs ==
    \/ \E priority \in Priorities : EnqueueJob(priority)
    \/ WorkerTake
    \/ WorkerWake
    \/ \E ok \in BOOLEAN : WorkerFinish(ok)
    \/ \E job_id \in 1..MaxJobs : CancelJob(job_id)
    \/ \E old \in SUBSET (1..MaxJobs) : CleanupOldJobs(old)

SpecJobs == Init /\ [][NextJobs]_vars

\* C20: get_next_job returns a pending job whose priority is at least that of
\* every other pending job, or None when no job is pending; a job that was
\* started, completed, failed or cancelled is never returned, so the worker
\* starts each job at most once.
C20_NextJobIsBestPending ==
    [][ /\ (worker.pc = "idle" /\ worker'.pc = "sleeping") =>
               \A i \in 1..Len(jobs) : jobs[i].status # "pending"
        /\ (worker.pc = "idle" /\ worker'.pc = "running") =>
               \E i \in 1..Len(jobs) :
                   /\ jobs[i].job_id = worker'.job
                   /\ jobs[i].status = "pending"
                   /\ jobs[i].starts = 0
                   /\ \A k \in 1..Len(jobs) :
                         jobs[k].status = "pending" => jobs[i].priority >= jobs[k].priority
        /\ \A i \in 1..Len(jobs') : jobs'[i].starts <= 1 ]_vars

\* the worker has finished the job of priority 2 that was enqueued second and
\* now runs the job of priority 1 that was enqueued first; a third job was
\* cancelled before it started
C20_Witness ==
    /\ Len(jobs) = 3
    /\ jobs[1].priority = 1 /\ jobs[1].status = "running" /\ jobs[1].starts = 1
    /\ jobs[2].priority = 2 /\ jobs[2].status = "completed" /\ jobs[2].starts = 1
    /\ jobs[3].status = "cancelled" /\ jobs[3].starts = 0
    /\ worker.job = 1


\* new continues old: old is a prefix of new, the entries after it are new to
\* the list and differ from each other, and a list at its cap stays as it is
GrowsByAppending(old, new, cap) ==
    /\ Len(new) >= Len(old)
    /\ \A k \in 1..Len(old) : new[k] = old[k]
    /\ \A k \in (Len(old) + 1)..Len(new) :
          \A j \in 1..(k - 1) : new[j] # new[k]
    /\ Len(old) >= cap => new = old

\* C21 as stated: across any sequence of feedback applications the stored
\* important_keywords and important_contacts only grow by appending: what was
\* stored before an application commits is still there at the same position,
\* nothing is added twice, and a list at its cap is left as it is.
C21_ListsGrowByAppending ==
    [][ \A p \in Procs :
          IsFbCommitStep(p) =>
              \A i \in 1..Len(profiles) :
                  /\ GrowsByAppending(profiles[i].important_keywords,
                                      profiles'[i].important_keywords, 50)
                  /\ GrowsByAppending(profiles[i].important_contacts,
                                      profiles'[i].important_contacts, 20) ]_vars


\* a sender name or email the item carries matches some contact, ignoring case
MatchesContact(metadata, key, contacts) ==
    /\ metadata[key] # Absent
    /\ \E k \in 1..Len(contacts) :
          \/ Contains(Lower(contacts[k]), Lower(metadata[key]))
          \/ Contains(Lower(metadata[key]), Lower(contacts[k]))

\* C22: sender_importance is 0.5 for every item when important_contacts is
\* empty; otherwise 1.0 if the item's sender name or sender email contains or
\* is contained by some contact, ignoring case, and 0.3 for every other item,
\* an item without sender name or email among them.
C22_SenderImportance ==
    rankOut # NoRank =>
        \A k \in 1..Len(rankOut.scored) :
            LET e == rankOut.scored[k]
                it == ItemById(e.item)
                contacts == ProfileOf(UserId).important_contacts
            IN e.breakdown["sender_importance"] =
                  IF contacts = <<>> THEN 500
                  ELSE IF it.metadata.kind = "dict"
                          /\ (\/ MatchesContact(it.metadata, "sender", contacts)
                              \/ MatchesContact(it.metadata, "sender_email", contacts))
                  THEN 1000
                  ELSE 300

-----------------------------------------------------------------------------
(* Urgency: RankingService._calculate_urgency as a function of the item    *)

UrgencyTitles ==
    { <<"O","m","e","g","a">>,
      <<"S","u","b","m","i","t"," ","d","u","e">>,
      <<"M","e","e","t","i","n","g">> }
UrgencyTexts == { <<>>, <<"A","S","A","P">> }
PriorityLevels == {"low", "medium", "high", "urgent"}
DueDays == {0, 2, 5, 8}
UrgencyTasks ==
    {Task(<<>>), TaskOf(<<0>>, "invalid")}
        \cup {TaskOf(<<d>>, f) : d \in DueDays, f \in {"naive", "aware"}}
TaskLists == {<<>>} \cup {<<t>> : t \in UrgencyTasks}
                 \cup {<<t, u>> : t \in UrgencyTasks, u \in UrgencyTasks}

UrgencyInputs ==
    { [title |-> ti, summary |-> <<>>, text |-> tx, priority |-> pr, extracted_tasks |-> ts] :
        ti \in UrgencyTitles, tx \in UrgencyTexts, pr \in PriorityLevels, ts \in TaskLists }

InitUrgency ==
    /\ NoRequests
    /\ ServicesIdle
    /\ vstore = NewStore
    /\ pipeline = NewPipeline
    /\ urgOut \in {[item |-> it, result |-> <<>>] : it \in UrgencyInputs}

\* urgency_score = self._calculate_urgency(item)
ComputeUrgency ==
    /\ urgOut.result = <<>>
    /\ urgOut' = [urgOut EXCEPT !.result = <<CalculateUrgency(urgOut.item)>>]
    /\ UNCHANGED <<core, feedItems, savers, storeVars, jobVars, pipeline>>

NextUrgency == ComputeUrgency

SpecUrgency == InitUrgency /\ [][NextUrgency]_vars

\* the urgency as stated: the maximum over keyword weights, due-date boosts
\* of the tasks whose due_date parses, and the priority floor
StatedUrgency(item) ==
    LET hay == Lower(item.title \o <<" ">> \o item.summary \o <<" ">> \o item.text)
        keywords == {k.weight : k \in {u \in UrgencyKeywords : Contains(u.keyword, hay)}}
        parseable == {j \in 1..Len(item.extracted_tasks) :
                         /\ item.extracted_tasks[j].due_date # <<>>
                         /\ item.extracted_tasks[j].form # "invalid"}
        days(j) == item.extracted_tasks[j].due_date[1]
        boosts == {IF days(j) <= 1 THEN 900 ELSE IF days(j) <= 3 THEN 700
                   ELSE IF days(j) <= 7 THEN 500 ELSE 0 : j \in parseable}
        floor == IF item.priority = "urgent" THEN 900
                 ELSE IF item.priority = "high" THEN 700 ELSE 0
    IN  SetMax({0, floor} \cup keywords \cup boosts)

PriorityRank(pr) == CASE pr = "low" -> 0 [] pr = "medium" -> 1 [] pr = "high" -> 2 [] pr = "urgent" -> 3

\* more is an item obtained from item by adding text, a task or priority
Extends(item, more) ==
    /\ more.title = item.title
    /\ more.summary = item.summary
    /\ Contains(item.text, more.text)
    /\ Len(more.extracted_tasks) >= Len(item.extracted_tasks)
    /\ SubSeq(more.extracted_tasks, 1, Len(item.extracted_tasks)) = item.extracted_tasks
    /\ PriorityRank(more.priority) >= PriorityRank(item.priority)

\* C23: the urgency of an item is the maximum of the highest weight of a table
\* keyword occurring in title+summary+text (0.0 if none), the due-date boost of
\* each task with a parseable due_date (0.9 within 1 day, 0.7 within 3, 0.5
\* within 7, none beyond) and the priority floor (0.9 urgent, 0.7 high); and an
\* item with a keyword, a task or a higher priority added is never less urgent
C23_UrgencyIsMaxOfSignals ==
    (urgOut # NoUrgency /\ urgOut.result # <<>>) =>
        /\ urgOut.result[1] = StatedUrgency(urgOut.item)
        /\ \A more \in UrgencyInputs :
               Extends(urgOut.item, more) => CalculateUrgency(more) >= urgOut.result[1]

-----------------------------------------------------------------------------
(* The user_feedback factor                                                *)

\* the value the spec gives a feedback type, in thousandths
FeedbackTypeValue(t) ==
    CASE t = "like" -> 1000 [] t = "complete" -> 800 [] t = "snooze" -> 300 [] t = "dislike" -> 0

RECURSIVE SumValues(_, _)
SumValues(rows, S) ==
    IF S = {} THEN 0
    ELSE LET i == CHOOSE x \in S : TRUE
         IN  FeedbackTypeValue(rows[i].feedback_type) + SumValues(rows, S \ {i})

\* the mean over the user's records of the four types inside the window
StatedFeedbackFactor(rows, user, cutoff) ==
    LET counted == {i \in 1..Len(rows) :
                       /\ rows[i].user_id = user
                       /\ rows[i].created_at >= cutoff
                       /\ rows[i].feedback_type \in {"like", "complete", "snooze", "dislike"}}
    IN  IF counted = {} THEN 500 ELSE SumValues(rows, counted) \div Cardinality(counted)

-----------------------------------------------------------------------------
(* The embedding pipeline: nlp/embeddings.py                               *)

MaxCalls == 4                     \* calls of embed_text

\* _ensure_model_loaded: returns at once when a model is held; otherwise
\* tries to construct the local model (loadOk) and, when that raises, sets
\* HF_AVAILABLE by whether `import requests` succeeds (requestsOk)
EnsureModelLoaded(pl, loadOk, requestsOk) ==
    IF pl.model THEN pl
    ELSE IF loadOk THEN [pl EXCEPT !.model = TRUE]
    ELSE [pl EXCEPT !.model = FALSE, !.hf_available = requestsOk]

\* the backend embed_text turns to first
TierOf(pl) == IF pl.model THEN "local" ELSE IF pl.hf_available THEN "remote" ELSE "unavailable"

\* embed_text(text): blank text returns None before anything is loaded
EmbedText(blank, loadOk, requestsOk) ==
    /\ Len(pipeline.log) < MaxCalls
    /\ pipeline' =
          IF blank
          THEN [pipeline EXCEPT !.log = Append(@, [attempted |-> FALSE, tier |-> "skipped"])]
          ELSE LET loaded == EnsureModelLoaded(pipeline, loadOk, requestsOk)
               IN  [loaded EXCEPT !.log = Append(@, [attempted |-> ~pipeline.model,
                                                     tier |-> TierOf(loaded)])]
    /\ UNCHANGED <<core, feedItems, savers, storeVars, jobVars, urgOut>>

NextEmbed == \E blank, loadOk, requestsOk \in BOOLEAN : EmbedText(blank, loadOk, requestsOk)

SpecEmbed == Init /\ [][NextEmbed]_vars

\* C25: the embedding tier (local model, remote fallback or unavailable) is
\* selected once, on the first embedding call; every later call reuses that
\* selection and never tries again to load the local model, also when the
\* first attempt to load it failed.
C25_TierSelectedOnce ==
    LET log == pipeline.log
        embedding == {k \in 1..Len(log) : log[k].tier # "skipped"}
    IN  \A k \in embedding :
           \A j \in embedding :
              j < k => /\ ~log[k].attempted
                       /\ log[k].tier = log[j].tier

-----------------------------------------------------------------------------
(* Rebuilding the index in a process that starts next to an index file     *)

\* what <index_path>.faiss and <index_path>.ids hold when the process starts:
\* nothing, or what an earlier process saved
IndexFiles ==
    { NoFile,
      <<<<4>>, <<<<4, 2>>>>>>,
      <<<<1, 2>>, <<<<1, 1>>, <<2, 2>>>>>> }

InitRebuild ==
    /\ NoRequests
    /\ ServicesIdle
    /\ vstore \in {[initialized |-> FALSE, file |-> f] : f \in IndexFiles}
    /\ pipeline = NewPipeline
    /\ urgOut = NoUrgency

NextRebuild ==
    \/ /\ LoopFree(loop)
       /\ \E feed_item_id \in VecItems, known \in BOOLEAN :
             AddEmbedding(feed_item_id, IF known THEN Owner[feed_item_id] ELSE NoUser)
    \/ /\ LoopFree(loop)
       /\ \E q \in RebuildQueries : RebuildStart(q)
    \/ RebuildReset
    \/ RebuildAdd
    \/ RebuildDone

SpecRebuild == InitRebuild /\ [][NextRebuild]_vars

\* the step in which a rebuild over all rows with an embedding returns
IsRebuildAllDone ==
    /\ loop.pc = "adding"
    /\ loop.todo = <<>>
    /\ loop.all = <<1, 2, 3>>
    /\ loop'.pc = "idle"

\* idx holds one vector for each of the rows and no other, and map gives
\* every position the row's (id, user_id)
ExactlyTheRows(idx, map, rows) ==
    /\ \A r \in rows : Cardinality({p \in 1..Len(idx) : idx[p] = r}) = 1
    /\ \A p \in 1..Len(idx) : idx[p] \in rows
    /\ Len(map) = Len(idx)
    /\ \A p \in 1..Len(idx) : map[p] = <<idx[p], Owner[idx[p]]>>

\* C26: after rebuild_index() completes, the index holds exactly one vector
\* for each stored item with an embedding and no other vector, and id_mapping
\* maps every index position to that item's (id, user_id), whatever the
\* in-memory index or the index file held before the rebuild.
C26_RebuildIsExact ==
    [][ IsRebuildAllDone => ExactlyTheRows(index', idMapping', {1, 2, 3}) ]_vars

-----------------------------------------------------------------------------
(* Cancelled jobs                                                          *)

\* C27: once cancel_job has set a job's status to CANCELLED no later queue or
\* worker operation changes it: a job cancelled while pending is never
\* started, and a job cancelled while running does not become completed or
\* failed when its handler finishes.
C27_CancelledIsFinal ==
    [][ \A i \in 1..Len(jobs) :
           jobs[i].status = "cancelled" =>
               \A k \in 1..Len(jobs') :
                   jobs'[k].job_id = jobs[i].job_id =>
                       /\ jobs'[k].status = "cancelled"
                       /\ jobs'[k].starts = jobs[i].starts ]_vars

-----------------------------------------------------------------------------
(* Progress of the worker                                                  *)

\* the worker task is scheduled whenever it can run: get_next_job is called
\* again after each round, asyncio.sleep(5) returns, and handlers terminate
SpecJobsFair ==
    /\ SpecJobs
    /\ WF_vars(WorkerTake)
    /\ WF_vars(WorkerWake)
    /\ WF_vars(\E ok \in BOOLEAN : WorkerFinish(ok))

InQueue(job_id) == \E i \in 1..Len(jobs) : jobs[i].job_id = job_id
Settled(job_id) == \A i \in 1..Len(jobs) : jobs[i].job_id = job_id => jobs[i].status \in Finished

\* the step in which a handler raised
IsHandlerRaised ==
    /\ worker.pc = "running"
    /\ worker'.pc # "running"
    /\ \E i \in 1..Len(jobs') : jobs'[i].job_id = worker.job /\ jobs'[i].status = "failed"

\* C28: with the worker running, handlers that terminate and finitely many
\* enqueued jobs, every job enqueued as pending eventually is completed, failed
\* or cancelled; a handler that raises marks only its own job failed, and the
\* worker goes on to process the remaining pending jobs.
C28_EveryJobSettles ==
    /\ \A job_id \in 1..MaxJobs : InQueue(job_id) ~> Settled(job_id)
    /\ [][ IsHandlerRaised =>
              /\ Len(jobs') = Len(jobs)
              /\ \A i \in 1..Len(jobs) : jobs[i].job_id # worker.job => jobs'[i] = jobs[i] ]_vars

\* C28 witness: the handler of the first job raised, the job is failed, and
\* the worker now runs the second job while a third is still pending
C28_Witness ==
    /\ Len(jobs) = 3
    /\ jobs[1].status = "failed" /\ jobs[1].starts = 1
    /\ jobs[2].status = "running" /\ worker = [pc |-> "running", job |-> 2]
    /\ jobs[3].status = "pending"

-----------------------------------------------------------------------------
(* The value the feedback endpoint passes on                               *)

\* the step in which POST /feedback stored its Feedback row and calls the
\* profile update
IsSubmitStep(p) == req[p].pc = "idle" /\ req'[p].pc = "fb_load" /\ req'[p].op = "submit"

\* C29: a like or complete submitted through the feedback endpoint without a
\* feedback_value, or with value 0.0, is passed to the profile update with
\* value 0.5: it adds no keywords or contacts and only appends a
\* feedback_history record; the endpoint makes the profile learn only from a
\* request that carries a feedback_value greater than 0.5.
C29_MissingValueIsNeutral ==
    [][ \A p \in Procs :
          /\ IsSubmitStep(p) =>
                LET sent == feedbacks'[Len(feedbacks')].feedback_value
                IN  /\ (sent = <<>> \/ sent = <<0>>) => req'[p].fvalue = 5
                    /\ req'[p].fvalue > 5 => sent = <<req'[p].fvalue>>
          /\ (IsFbCommitStep(p) /\ req[p].op = "submit" /\ req[p].fvalue <= 5) =>
                LET rec == HistoryRecord(ItemById(req[p].item), req[p].ftype, req[p].fvalue, req[p].ts)
                    appended == Suffix(Append(req[p].row.feedback_history, rec), 100)
                IN  /\ \A i \in 1..Len(profiles) :
                          /\ profiles'[i].important_keywords = profiles[i].important_keywords
                          /\ profiles'[i].important_contacts = profiles[i].important_contacts
                          /\ profiles'[i].feedback_history \in {profiles[i].feedback_history, appended}
                    /\ \A i \in (Len(profiles) + 1)..Len(profiles') :
                          /\ profiles'[i].important_keywords = <<>>
                          /\ profiles'[i].important_contacts = <<>>
                          /\ profiles'[i].feedback_history = appended ]_vars

\* C29 witness: a like sent with value 0.0 for the item 'Gamma news' was
\* committed with value 0.5; the user's profile holds its record and no keyword
C29_Witness ==
    /\ resp.op = "submit" /\ resp.applied
    /\ resp.ftype = "like" /\ resp.fvalue = 5
    /\ \E i \in 1..Len(feedbacks) :
          feedbacks[i].created_at = resp.ts /\ feedbacks[i].feedback_value = <<0>>
    /\ HasProfile(UserId)
    /\ ProfileOf(UserId).important_keywords = <<>>
    /\ \E k \in 1..Len(ProfileOf(UserId).feedback_history) :
          /\ ProfileOf(UserId).feedback_history[k].timestamp = resp.ts
          /\ ProfileOf(UserId).feedback_history[k].feedback_value = 5

-----------------------------------------------------------------------------
(* Two saves at once: server processes that share the database            *)

SaveSources == {"whatsapp", "telegram"}
SaveItems ==
    {FeedItemRow(u, src, o, t) : u \in UserIds, src \in SaveSources, o \in OriginIds, t \in Titles}

\* rows that savers past their duplicate check may still add
Checked == Cardinality({p \in Procs : savers[p].pc = "checked"})

\* save_feed_items_with_embeddings, one item: the duplicate query
SaveCheck(p, feed_item) ==
    /\ savers[p].pc = "idle"
    /\ Len(feedItems) + Checked < MaxStored
    /\ savers' = [savers EXCEPT ![p] =
          [pc |-> "checked", item |-> <<feed_item>>,
           existing |-> Existing(feedItems, feed_item.user_id, feed_item.source,
                                 feed_item.origin_id)]]
    /\ UNCHANGED <<core, pureVars, feedItems, storeVars, jobVars>>

\* `if existing: continue`, else db.add(feed_item); db.commit()
SaveInsert(p) ==
    /\ savers[p].pc = "checked"
    /\ feedItems' = IF savers[p].existing THEN feedItems
                    ELSE Append(feedItems, savers[p].item[1])
    /\ savers' = [savers EXCEPT ![p] = SaverIdle]
    /\ UNCHANGED <<core, pureVars, storeVars, jobVars>>

NextSave ==
    \/ \E p \in Procs, feed_item \in SaveItems : SaveCheck(p, feed_item)
    \/ \E p \in Procs : SaveInsert(p)

SpecSave == Init /\ [][NextSave]_vars

\* C30: when two saves for the same (user_id, source, origin_id) run at the
\* same time exactly one row with that key is stored: the duplicate check and
\* the insert of one save do not interleave with those of the other so that
\* both insert, i.e. no save inserts a row whose key is already stored.
C30_ConcurrentSavesInsertOnce ==
    [][ \A p \in Procs :
          (savers[p].pc = "checked" /\ feedItems' # feedItems) =>
              LET it == savers[p].item[1]
              IN  ~Existing(feedItems, it.user_id, it.source, it.origin_id) ]_vars

====
